---- MODULE Spec2Model ----
(***************************************************************************)
(* Compliance and mixture-analysis engine of the Artisan Perfume           *)
(* Formulator (utils/engine.ts, data/ncs.ts, types.ts).                    *)
(*                                                                         *)
(* Numbers are exact rationals [num, den] in lowest terms; den = 0 stands  *)
(* for the non-finite results of a division by zero (Infinity, NaN).       *)
(* Names are sequences of one-character strings, so that toLowerCase and   *)
(* includes are computed; CAS numbers are sequences of tokens in which     *)
(* " " is a white-space character, so that trim is computed.               *)
(***************************************************************************)
EXTENDS Integers, Sequences, FiniteSets, TLC

\* ------------------------------------------------------------------------
\* Bounds
\* ------------------------------------------------------------------------

\* Largest number of items in a formula.
MaxItems == 2

\* Ethanol percentages handed to the flash-point estimator: the multiples of
\* 1/PctDen from -2 to MaxPct.
PctDen == 2

MaxPct == 105

\* ------------------------------------------------------------------------
\* Arithmetic of JavaScript numbers, as exact rationals
\* ------------------------------------------------------------------------

Abs(n) == IF n < 0 THEN -n ELSE n

RECURSIVE GCD(_, _)
GCD(a, b) == IF b = 0 THEN a ELSE GCD(b, a % b)

Sign(n) == IF n > 0 THEN 1 ELSE IF n < 0 THEN -1 ELSE 0

\* n/d in lowest terms with a positive denominator; n/0 is Infinity,
\* -Infinity or NaN (num 1, -1, 0).
Rat(n, d) ==
  IF d = 0 THEN [num |-> Sign(n), den |-> 0]
  ELSE LET g == GCD(Abs(n), Abs(d))
           s == IF d < 0 THEN -1 ELSE 1
       IN  [num |-> (s * n) \div g, den |-> Abs(d) \div g]

Int2R(n) == Rat(n, 1)
Zero == Int2R(0)
One == Int2R(1)
NaN == [num |-> 0, den |-> 0]
Infinity == [num |-> 1, den |-> 0]

IsFinite(a) == a.den # 0

\* Sums, products and comparisons cancel common factors before they multiply.
RAdd(a, b) ==
  IF IsFinite(a) /\ IsFinite(b)
  THEN LET g == GCD(a.den, b.den)
       IN  Rat(a.num * (b.den \div g) + b.num * (a.den \div g), (a.den \div g) * b.den)
  ELSE IF IsFinite(b) THEN a
  ELSE IF IsFinite(a) THEN b
  ELSE IF a.num = b.num THEN a ELSE NaN

RNeg(a) == [num |-> -a.num, den |-> a.den]

RSub(a, b) == RAdd(a, RNeg(b))

RMul(a, b) ==
  IF IsFinite(a) /\ IsFinite(b)
  THEN LET g1 == GCD(Abs(a.num), b.den)
           g2 == GCD(Abs(b.num), a.den)
       IN  Rat((a.num \div g1) * (b.num \div g2), (a.den \div g2) * (b.den \div g1))
  ELSE [num |-> Sign(a.num) * Sign(b.num), den |-> 0]

RDiv(a, b) ==
  IF IsFinite(a) /\ IsFinite(b)
  THEN IF b.num = 0 THEN [num |-> Sign(a.num), den |-> 0]
       ELSE RMul(a, [num |-> Sign(b.num) * b.den, den |-> Abs(b.num)])
  ELSE IF IsFinite(a) THEN Zero
  ELSE IF IsFinite(b) THEN [num |-> a.num * (IF b.num < 0 THEN -1 ELSE 1), den |-> 0]
  ELSE NaN

IsNaN(a) == a.den = 0 /\ a.num = 0

\* a <= b, a < b and a > b of JavaScript: false whenever an operand is NaN.
RLeq(a, b) ==
  IF IsNaN(a) \/ IsNaN(b) THEN FALSE
  ELSE IF IsFinite(a) /\ IsFinite(b)
  THEN LET g == GCD(a.den, b.den)
       IN  a.num * (b.den \div g) <= b.num * (a.den \div g)
  ELSE IF IsFinite(a) THEN b.num > 0
  ELSE IF IsFinite(b) THEN a.num < 0
  ELSE a.num <= b.num

RLt(a, b) ==
  IF IsNaN(a) \/ IsNaN(b) THEN FALSE
  ELSE IF IsFinite(a) /\ IsFinite(b)
  THEN LET g == GCD(a.den, b.den)
       IN  a.num * (b.den \div g) < b.num * (a.den \div g)
  ELSE IF IsFinite(a) THEN b.num > 0
  ELSE IF IsFinite(b) THEN a.num < 0
  ELSE a.num < b.num

RGt(a, b) == RLt(b, a)

RGeq(a, b) == RLeq(b, a)

\* ------------------------------------------------------------------------
\* Strings
\* ------------------------------------------------------------------------

sEmpty == <<>>
sNone == <<"N", "o", "n", "e">>
sEthanol == <<"E", "t", "h", "a", "n", "o", "l">>
sDPG == <<"D", "P", "G">>
sIPM == <<"I", "P", "M">>
sTEC == <<"T", "E", "C">>
sBB == <<"B", "B">>
sWater == <<"W", "a", "t", "e", "r">>
sSolvent == <<"S", "o", "l", "v", "e", "n", "t">>

\* CAS numbers: sequences of tokens, " " being a white-space character.
casEmpty == <<>>
casMixture == <<"Mixture">>
casLimonene == <<"5989-27-5">>
casLinalool == <<"78-70-6">>
casCitral == <<"5392-40-5">>
casBergapten == <<"484-20-8">>
casGeraniol == <<"106-24-1">>
casEthanol == <<"64-17-5">>
casMuskAmbrette == <<"83-66-9">>
casSafrole == <<"94-59-7">>

\* String.prototype.trim
RECURSIVE TrimStart(_)
TrimStart(s) == IF s # <<>> /\ Head(s) = " " THEN TrimStart(Tail(s)) ELSE s

RECURSIVE TrimEnd(_)
TrimEnd(s) ==
  IF s # <<>> /\ s[Len(s)] = " " THEN TrimEnd(SubSeq(s, 1, Len(s) - 1)) ELSE s

Trim(s) == TrimEnd(TrimStart(s))

\* ------------------------------------------------------------------------
\* Reference tables
\* ------------------------------------------------------------------------

sLimoneneName == <<"L", "i", "m", "o", "n", "e", "n", "e">>
sLinaloolName == <<"L", "i", "n", "a", "l", "o", "o", "l">>
sCitralName == <<"C", "i", "t", "r", "a", "l">>
sBerzaptenName == <<"B", "e", "r", "z", "a", "p", "t", "e", "n">>
sGeraniolName == <<"G", "e", "r", "a", "n", "i", "o", "l">>

\* Constituent expansion table: the first two entries of the source's table.
NCS_DATA ==
  << [id |-> "bergamot_oil",
      constituents |->
        << [name |-> sLimoneneName, cas |-> casLimonene, percent |-> Rat(40, 100)],
           [name |-> sLinaloolName, cas |-> casLinalool, percent |-> Rat(12, 100)],
           [name |-> sCitralName, cas |-> casCitral, percent |-> Rat(7, 1000)],
           [name |-> sBerzaptenName, cas |-> casBergapten, percent |-> Rat(2, 1000)] >>],
     [id |-> "lemon_oil",
      constituents |->
        << [name |-> sLimoneneName, cas |-> casLimonene, percent |-> Rat(68, 100)],
           [name |-> sCitralName, cas |-> casCitral, percent |-> Rat(25, 1000)],
           [name |-> sGeraniolName, cas |-> casGeraniol, percent |-> Rat(3, 1000)] >>] >>

\* Usage categories offered to the user.
Categories == {"4", "5A", "9"}

\* Regulatory limit library, keyed by CAS; limits are percentages. An entry
\* may lack the limits map (IFRAEntry.limits is optional).
IFRA_LIBRARY ==
  (casBergapten :>
     [name |-> "Bergapten", type |-> "restricted",
      limits |-> ("4" :> Rat(4, 10) @@ "5A" :> Rat(2, 10) @@ "9" :> Rat(1, 10))])
  @@ (casCitral :>
     [name |-> "Citral", type |-> "restricted",
      limits |-> ("4" :> Rat(6, 10) @@ "5A" :> Rat(5, 100))])
  @@ (casLimonene :> [name |-> "Limonene", type |-> "specification"])
  @@ (casGeraniol :>
     [name |-> "Geraniol", type |-> "restricted", limits |-> ("4" :> Rat(53, 10))])
  @@ (casMuskAmbrette :> [name |-> "Musk Ambrette", type |-> "prohibited"])
  @@ (casSafrole :>
     [name |-> "Safrole", type |-> "prohibited", limits |-> ("4" :> Rat(1, 100))])

\* Ingredient master list (the fields the engine reads).
INGREDIENTS ==
  << [id |-> "bergamot_oil", density |-> Rat(88, 100),
      name |-> <<"B", "e", "r", "g", "a", "m", "o", "t">>, cas |-> casMixture,
      family |-> <<"C", "i", "t", "r", "u", "s">>, note |-> <<"T", "o", "p">>,
      dilution |-> One, solvent |-> sNone, costPerKg |-> Int2R(120)],
     [id |-> "lemon_oil", density |-> Rat(85, 100),
      name |-> <<"L", "e", "m", "o", "n">>, cas |-> casMixture,
      family |-> <<"C", "i", "t", "r", "u", "s">>, note |-> <<"T", "o", "p">>,
      dilution |-> One, solvent |-> sNone, costPerKg |-> Int2R(90)],
     [id |-> "ethanol", density |-> Rat(8, 10),
      name |-> sEthanol, cas |-> casEthanol,
      family |-> sSolvent, note |-> sSolvent,
      dilution |-> One, solvent |-> sNone, costPerKg |-> Int2R(10)] >>

\* Array.prototype.find: the index of the first element with that id, 0 if
\* there is none.
RECURSIVE FindFrom(_, _, _)
FindFrom(table, id, i) ==
  IF i > Len(table) THEN 0
  ELSE IF table[i].id = id THEN i
  ELSE FindFrom(table, id, i + 1)

FindById(table, id) == FindFrom(table, id, 1)

\* ------------------------------------------------------------------------
\* checkCompliance
\* ------------------------------------------------------------------------

\* massByCas and sourcesByCas: keys in the order Object.keys lists them
\* (insertion order; CAS keys carry hyphens, so none is an array index),
\* the mass of each key and its sources in the order they were added.
EmptyAcc == [keys |-> <<>>, mass |-> <<>>, sources |-> <<>>]

InSeq(x, s) == \E i \in 1..Len(s) : s[i] = x

\* Set.prototype.add on an insertion-ordered set.
SetAdd(s, x) == IF InSeq(x, s) THEN s ELSE Append(s, x)

\* Accumulate with the mass assigned instead of added.
AccumulateOverwrite(acc, cas, m, src) ==
  IF cas \in DOMAIN acc.mass
  THEN [keys |-> acc.keys,
        mass |-> [acc.mass EXCEPT ![cas] = m],
        sources |-> [acc.sources EXCEPT ![cas] = SetAdd(@, src)]]
  ELSE [keys |-> Append(acc.keys, cas),
        mass |-> acc.mass @@ (cas :> m),
        sources |-> acc.sources @@ (cas :> <<src>>)]

\* massByCas[cas] = (massByCas[cas] || 0) + m; sourcesByCas[cas].add(src)
Accumulate(acc, cas, m, src) ==
  IF cas \in DOMAIN acc.mass
  THEN [keys |-> acc.keys,
        mass |-> [acc.mass EXCEPT ![cas] = RAdd(@, m)],
        sources |-> [acc.sources EXCEPT ![cas] = SetAdd(@, src)]]
  ELSE [keys |-> Append(acc.keys, cas),
        mass |-> acc.mass @@ (cas :> RAdd(Zero, m)),
        sources |-> acc.sources @@ (cas :> <<src>>)]

\* `${item.name} (Hidden ${constituent.name})`
HiddenSource(itemName, constituentName) ==
  itemName \o <<" ", "(", "H", "i", "d", "d", "e", "n", " ">> \o constituentName \o <<")">>

\* DirectCheck keyed by the CAS as typed, without trim.
DirectCheckNoTrim(acc, item) ==
  LET realMass == RMul(item.weight, item.dilution)
      directCas == item.cas
  IN  IF directCas # <<>> /\ directCas # casMixture
      THEN Accumulate(acc, directCas, realMass, item.name)
      ELSE acc

\* 1. Direct Check
DirectCheck(acc, item) ==
  LET realMass == RMul(item.weight, item.dilution)
      directCas == Trim(item.cas)
  IN  IF directCas # <<>> /\ directCas # casMixture
      THEN Accumulate(acc, directCas, realMass, item.name)
      ELSE acc

\* ncsProfile.constituents.forEach, from constituent i on
RECURSIVE ExpandFrom(_, _, _, _)
ExpandFrom(acc, item, constituents, i) ==
  IF i > Len(constituents) THEN acc
  ELSE LET realMass == RMul(item.weight, item.dilution)
           constituent == constituents[i]
           constituentMass == RMul(realMass, constituent.percent)
       IN  ExpandFrom(Accumulate(acc, constituent.cas, constituentMass,
                                 HiddenSource(item.name, constituent.name)),
                      item, constituents, i + 1)

\* NCSExpansion done only for an item that passed the direct check.
NCSExpansionOnlyWithCas(acc, item) ==
  IF item.ingredientId # "" /\ Trim(item.cas) # <<>> /\ Trim(item.cas) # casMixture
  THEN LET n == FindById(NCS_DATA, item.ingredientId)
       IN  IF n # 0 THEN ExpandFrom(acc, item, NCS_DATA[n].constituents, 1) ELSE acc
  ELSE acc

\* 2. NCS Expansion
NCSExpansion(acc, item) ==
  IF item.ingredientId # ""
  THEN LET n == FindById(NCS_DATA, item.ingredientId)
       IN  IF n # 0 THEN ExpandFrom(acc, item, NCS_DATA[n].constituents, 1) ELSE acc
  ELSE acc

\* formula.forEach of checkCompliance, from item i on
RECURSIVE AccumulateFrom(_, _, _)
AccumulateFrom(acc, formula, i) ==
  IF i > Len(formula) THEN acc
  ELSE AccumulateFrom(NCSExpansion(DirectCheck(acc, formula[i]), formula[i]), formula, i + 1)

MassByCas(formula) == AccumulateFrom(EmptyAcc, formula, 1)

\* limitPercent of an entry for a category
LimitPercent(entry, targetCategory) ==
  IF "limits" \in DOMAIN entry /\ targetCategory \in DOMAIN entry.limits
  THEN entry.limits[targetCategory]
  ELSE IF entry.type = "prohibited" THEN Zero
  ELSE Int2R(100)

\* MakeRow with the comparison concentration < limit.
MakeRowStrict(cas, entry, totalMass, concentration, limitDecimal, sources) ==
  [cas |-> cas,
   name |-> entry.name,
   totalMass |-> totalMass,
   concentration |-> concentration,
   limit |-> limitDecimal,
   isCompliant |-> RLt(concentration, limitDecimal),
   sources |-> sources,
   reason |-> IF entry.type = "prohibited" THEN "Prohibited" ELSE "Restriction"]

\* results.push({...})
MakeRow(cas, entry, totalMass, concentration, limitDecimal, sources) ==
  [cas |-> cas,
   name |-> entry.name,
   totalMass |-> totalMass,
   concentration |-> concentration,
   limit |-> limitDecimal,
   isCompliant |-> RLeq(concentration, limitDecimal),
   sources |-> sources,
   reason |-> IF entry.type = "prohibited" THEN "Prohibited" ELSE "Restriction"]

\* The row pushed for a CAS that has a library entry.
ResultRow(acc, cas, totalBatchWeight, targetCategory) ==
  MakeRow(cas, IFRA_LIBRARY[cas], acc.mass[cas],
          RDiv(acc.mass[cas], totalBatchWeight),
          RDiv(LimitPercent(IFRA_LIBRARY[cas], targetCategory), Int2R(100)),
          acc.sources[cas])

\* Object.keys(massByCas).forEach, from key i on
RECURSIVE RowsFrom(_, _, _, _)
RowsFrom(acc, totalBatchWeight, targetCategory, i) ==
  IF i > Len(acc.keys) THEN <<>>
  ELSE LET cas == acc.keys[i]
           rest == RowsFrom(acc, totalBatchWeight, targetCategory, i + 1)
       IN  IF cas \in DOMAIN IFRA_LIBRARY
           THEN <<ResultRow(acc, cas, totalBatchWeight, targetCategory)>> \o rest
           ELSE rest

IsNonCompliant(r) == ~r.isCompliant

IsCompliantRow(r) == r.isCompliant

\* SortResults with the comparator's sign flipped: compliant rows first.
SortResultsCompliantFirst(results) ==
  SelectSeq(results, IsCompliantRow) \o SelectSeq(results, IsNonCompliant)

\* results.sort with the comparator 0 / 1 / -1 on isCompliant; the sort is
\* stable, so it is the stable partition into non-compliant, then compliant.
SortResults(results) ==
  SelectSeq(results, IsNonCompliant) \o SelectSeq(results, IsCompliantRow)

\* checkCompliance without the early return for a zero batch weight.
checkComplianceNoGuard(formula, totalBatchWeight, targetCategory) ==
  SortResults(RowsFrom(MassByCas(formula), totalBatchWeight, targetCategory, 1))

checkCompliance(formula, totalBatchWeight, targetCategory) ==
  IF totalBatchWeight = Zero THEN <<>>
  ELSE SortResults(RowsFrom(MassByCas(formula), totalBatchWeight, targetCategory, 1))

\* ------------------------------------------------------------------------
\* calculateSolventBreakdown and estimateFlashPoint
\* ------------------------------------------------------------------------

sBenzylBenzoate ==
  <<"B", "e", "n", "z", "y", "l", " ", "B", "e", "n", "z", "o", "a", "t", "e">>
sWaterAqua == <<"W", "a", "t", "e", "r", " ", "(", "A", "q", "u", "a", ")">>

\* Standard solvent densities (g/ml)
SOLVENT_DENSITIES ==
  (sEthanol :> Rat(789, 1000)) @@ (sDPG :> Rat(102, 100)) @@ (sIPM :> Rat(85, 100))
  @@ (sTEC :> Rat(112, 100)) @@ (sBB :> Rat(112, 100))
  @@ (sBenzylBenzoate :> Rat(112, 100)) @@ (sWater :> One) @@ (sWaterAqua :> One)

UpperToLower ==
  ("A" :> "a") @@ ("B" :> "b") @@ ("C" :> "c") @@ ("D" :> "d") @@ ("E" :> "e")
  @@ ("F" :> "f") @@ ("G" :> "g") @@ ("H" :> "h") @@ ("I" :> "i") @@ ("J" :> "j")
  @@ ("K" :> "k") @@ ("L" :> "l") @@ ("M" :> "m") @@ ("N" :> "n") @@ ("O" :> "o")
  @@ ("P" :> "p") @@ ("Q" :> "q") @@ ("R" :> "r") @@ ("S" :> "s") @@ ("T" :> "t")
  @@ ("U" :> "u") @@ ("V" :> "v") @@ ("W" :> "w") @@ ("X" :> "x") @@ ("Y" :> "y")
  @@ ("Z" :> "z")

\* String.prototype.toLowerCase
toLowerCase(s) ==
  [i \in 1..Len(s) |-> IF s[i] \in DOMAIN UpperToLower THEN UpperToLower[s[i]] ELSE s[i]]

\* String.prototype.includes
includes(s, sub) ==
  \E i \in 0..(Len(s) - Len(sub)) : SubSeq(s, i + 1, i + Len(sub)) = sub

\* Case 2: the carrier name of a direct solvent line item
NormalizeSolventName(name) ==
  LET lowerName == toLowerCase(name)
  IN  IF includes(lowerName, <<"e", "t", "h", "a", "n", "o", "l">>)
         \/ includes(lowerName, <<"a", "l", "c", "o", "h", "o", "l">>) THEN sEthanol
      ELSE IF includes(lowerName, <<"d", "p", "g">>) THEN sDPG
      ELSE IF includes(lowerName, <<"i", "p", "m">>) THEN sIPM
      ELSE IF includes(lowerName, <<"t", "e", "c">>) THEN sTEC
      ELSE IF includes(lowerName, <<"w", "a", "t", "e", "r">>)
              \/ includes(lowerName, <<"a", "q", "u", "a">>) THEN sWater
      ELSE IF includes(lowerName, <<"b", "b">>)
              \/ includes(lowerName, <<"b", "e", "n", "z", "y", "l", " ",
                                       "b", "e", "n", "z", "o", "a", "t", "e">>) THEN sBB
      ELSE name

\* item.dilution || 1
DilutionOr1(item) ==
  IF item.dilution = Zero \/ IsNaN(item.dilution) THEN One ELSE item.dilution

\* SolventContribution that tests the Solvent tag before the dilution.
SolventContributionTagFirst(item) ==
  LET dilution == DilutionOr1(item)
  IN  IF item.family = sSolvent \/ item.note = sSolvent
      THEN [solventName |-> NormalizeSolventName(item.name), addedMass |-> item.weight]
      ELSE IF RLt(dilution, One)
      THEN [solventName |-> IF item.solvent = sEmpty \/ item.solvent = sNone
                            THEN sEthanol ELSE item.solvent,
            addedMass |-> RMul(item.weight, RSub(One, dilution))]
      ELSE [solventName |-> sNone, addedMass |-> Zero]

\* solventName and addedMass of one item
SolventContribution(item) ==
  LET dilution == DilutionOr1(item)
  IN  IF RLt(dilution, One)
      THEN [solventName |-> IF item.solvent = sEmpty \/ item.solvent = sNone
                            THEN sEthanol ELSE item.solvent,
            addedMass |-> RMul(item.weight, RSub(One, dilution))]
      ELSE IF (item.family = sSolvent \/ item.note = sSolvent) /\ dilution = One
      THEN [solventName |-> NormalizeSolventName(item.name), addedMass |-> item.weight]
      ELSE [solventName |-> sNone, addedMass |-> Zero]

\* SOLVENT_DENSITIES[solventName] || 1.0
SolventDensity(solventName) ==
  IF solventName \in DOMAIN SOLVENT_DENSITIES THEN SOLVENT_DENSITIES[solventName] ELSE One

EmptySolventMap ==
  [keys |-> <<>>, data |-> <<>>, totalSolventMass |-> Zero, totalSolventVolume |-> Zero]

\* AddSolvent that replaces the entry of a carrier already present.
AddSolventOverwrite(m, solventName, addedMass, addedVol) ==
  [keys |-> SetAdd(m.keys, solventName),
   data |-> IF solventName \in DOMAIN m.data
            THEN [m.data EXCEPT ![solventName] = [mass |-> addedMass, volume |-> addedVol]]
            ELSE m.data @@ (solventName :> [mass |-> addedMass, volume |-> addedVol]),
   totalSolventMass |-> RAdd(m.totalSolventMass, addedMass),
   totalSolventVolume |-> RAdd(m.totalSolventVolume, addedVol)]

\* solventMap.set(solventName, ...) and the two running totals
AddSolvent(m, solventName, addedMass, addedVol) ==
  [keys |-> SetAdd(m.keys, solventName),
   data |-> IF solventName \in DOMAIN m.data
            THEN [m.data EXCEPT ![solventName] =
                    [mass |-> RAdd(@.mass, addedMass), volume |-> RAdd(@.volume, addedVol)]]
            ELSE m.data @@ (solventName :>
                    [mass |-> RAdd(Zero, addedMass), volume |-> RAdd(Zero, addedVol)]),
   totalSolventMass |-> RAdd(m.totalSolventMass, addedMass),
   totalSolventVolume |-> RAdd(m.totalSolventVolume, addedVol)]

\* AccumulateContribution without the test of the name 'None'.
AccumulateContributionAnyName(m, c) ==
  IF RGt(c.addedMass, Zero)
  THEN AddSolvent(m, c.solventName, c.addedMass,
                  RDiv(c.addedMass, SolventDensity(c.solventName)))
  ELSE m

\* Accumulate
AccumulateContribution(m, c) ==
  IF RGt(c.addedMass, Zero) /\ c.solventName # sNone
  THEN AddSolvent(m, c.solventName, c.addedMass,
                  RDiv(c.addedMass, SolventDensity(c.solventName)))
  ELSE m

AccumulateSolvent(m, item) == AccumulateContribution(m, SolventContribution(item))

\* formula.forEach of calculateSolventBreakdown, from item i on
RECURSIVE SolventMapFrom(_, _, _)
SolventMapFrom(m, formula, i) ==
  IF i > Len(formula) THEN m
  ELSE SolventMapFrom(AccumulateSolvent(m, formula[i]), formula, i + 1)

\* One breakdown row
BreakdownEntry(m, name) ==
  [name |-> name,
   mass |-> m.data[name].mass,
   volume |-> m.data[name].volume,
   massPct |-> IF RGt(m.totalSolventMass, Zero)
               THEN RMul(RDiv(m.data[name].mass, m.totalSolventMass), Int2R(100)) ELSE Zero,
   volPct |-> IF RGt(m.totalSolventVolume, Zero)
              THEN RMul(RDiv(m.data[name].volume, m.totalSolventVolume), Int2R(100)) ELSE Zero]

\* InsertByMass with the comparison turned round: ascending mass.
RECURSIVE InsertByMassAscending(_, _)
InsertByMassAscending(sorted, e) ==
  IF sorted = <<>> THEN <<e>>
  ELSE IF RLt(e.mass, Head(sorted).mass) THEN <<e>> \o sorted
  ELSE <<Head(sorted)>> \o InsertByMassAscending(Tail(sorted), e)

\* Insertion of a row behind every row that does not sort after it.
RECURSIVE InsertByMass(_, _)
InsertByMass(sorted, e) ==
  IF sorted = <<>> THEN <<e>>
  ELSE IF RGt(e.mass, Head(sorted).mass) THEN <<e>> \o sorted
  ELSE <<Head(sorted)>> \o InsertByMass(Tail(sorted), e)

\* .sort((a, b) => b.mass - a.mass): stable, descending mass
RECURSIVE SortByMassFrom(_, _, _)
SortByMassFrom(sorted, rows, i) ==
  IF i > Len(rows) THEN sorted
  ELSE SortByMassFrom(InsertByMass(sorted, rows[i]), rows, i + 1)

Null == <<>>

Some(x) == <<x>>

\* Data points: [Ethanol % v/v, Flash Point C]
FlashPoints ==
  << <<0, 100>>, <<5, 62>>, <<10, 49>>, <<20, 36>>, <<30, 29>>, <<40, 26>>,
     <<50, 24>>, <<60, 22>>, <<70, 21>>, <<80, 20>>, <<90, 17>>, <<100, 13>> >>

\* InterpolateFrom whose loop leaves out the first segment.
RECURSIVE InterpolateFromSkipFirst(_, _)
InterpolateFromSkipFirst(ethanolVvPct, i) ==
  IF i > Len(FlashPoints) - 1 THEN Int2R(13)
  ELSE LET p1Pct == Int2R(FlashPoints[i][1])
           p1Temp == Int2R(FlashPoints[i][2])
           p2Pct == Int2R(FlashPoints[i + 1][1])
           p2Temp == Int2R(FlashPoints[i + 1][2])
           ratio == RDiv(RSub(ethanolVvPct, p1Pct), RSub(p2Pct, p1Pct))
       IN  IF i > 1 /\ RGeq(ethanolVvPct, p1Pct) /\ RLeq(ethanolVvPct, p2Pct)
           THEN RAdd(p1Temp, RMul(ratio, RSub(p2Temp, p1Temp)))
           ELSE InterpolateFromSkipFirst(ethanolVvPct, i + 1)

\* InterpolateFrom with the temperature difference taken the wrong way round.
RECURSIVE InterpolateFromWrongSlope(_, _)
InterpolateFromWrongSlope(ethanolVvPct, i) ==
  IF i > Len(FlashPoints) - 1 THEN Int2R(13)
  ELSE LET p1Pct == Int2R(FlashPoints[i][1])
           p1Temp == Int2R(FlashPoints[i][2])
           p2Pct == Int2R(FlashPoints[i + 1][1])
           p2Temp == Int2R(FlashPoints[i + 1][2])
           ratio == RDiv(RSub(ethanolVvPct, p1Pct), RSub(p2Pct, p1Pct))
       IN  IF RGeq(ethanolVvPct, p1Pct) /\ RLeq(ethanolVvPct, p2Pct)
           THEN RAdd(p1Temp, RMul(ratio, RSub(p1Temp, p2Temp)))
           ELSE InterpolateFromWrongSlope(ethanolVvPct, i + 1)

\* Linear interpolation: the loop over the segments, from segment i on
RECURSIVE InterpolateFrom(_, _)
InterpolateFrom(ethanolVvPct, i) ==
  IF i > Len(FlashPoints) - 1 THEN Int2R(13)
  ELSE LET p1Pct == Int2R(FlashPoints[i][1])
           p1Temp == Int2R(FlashPoints[i][2])
           p2Pct == Int2R(FlashPoints[i + 1][1])
           p2Temp == Int2R(FlashPoints[i + 1][2])
           ratio == RDiv(RSub(ethanolVvPct, p1Pct), RSub(p2Pct, p1Pct))
       IN  IF RGeq(ethanolVvPct, p1Pct) /\ RLeq(ethanolVvPct, p2Pct)
           THEN RAdd(p1Temp, RMul(ratio, RSub(p2Temp, p1Temp)))
           ELSE InterpolateFrom(ethanolVvPct, i + 1)

\* RateFlashPoint that tests the 60 C threshold before the 23 C threshold.
RateFlashPointSixtyFirst(estimatedC) ==
  IF RLt(estimatedC, Int2R(60))
  THEN [celsius |-> Some(estimatedC), rating |-> "Flammable",
        warning |-> "Flammable - review shipping/storage"]
  ELSE IF RLt(estimatedC, Int2R(23))
  THEN [celsius |-> Some(estimatedC), rating |-> "High",
        warning |-> "High flammability / shipping constraints likely"]
  ELSE [celsius |-> Some(estimatedC), rating |-> "Low",
        warning |-> "Lower flammability (still validate)"]

\* RateFlashPoint with 23 C itself rated High.
RateFlashPointInclusive(estimatedC) ==
  IF RLeq(estimatedC, Int2R(23))
  THEN [celsius |-> Some(estimatedC), rating |-> "High",
        warning |-> "High flammability / shipping constraints likely"]
  ELSE IF RLt(estimatedC, Int2R(60))
  THEN [celsius |-> Some(estimatedC), rating |-> "Flammable",
        warning |-> "Flammable - review shipping/storage"]
  ELSE [celsius |-> Some(estimatedC), rating |-> "Low",
        warning |-> "Lower flammability (still validate)"]

\* Determine Warning Level
RateFlashPoint(estimatedC) ==
  IF RLt(estimatedC, Int2R(23))
  THEN [celsius |-> Some(estimatedC), rating |-> "High",
        warning |-> "High flammability / shipping constraints likely"]
  ELSE IF RLt(estimatedC, Int2R(60))
  THEN [celsius |-> Some(estimatedC), rating |-> "Flammable",
        warning |-> "Flammable - review shipping/storage"]
  ELSE [celsius |-> Some(estimatedC), rating |-> "Low",
        warning |-> "Lower flammability (still validate)"]

\* estimateFlashPoint that lets 0% through to the curve.
estimateFlashPointStrict(ethanolVvPct) ==
  IF RLt(ethanolVvPct, Zero)
  THEN [celsius |-> Null, rating |-> "Safe", warning |-> "Non-flammable solvent basis"]
  ELSE RateFlashPoint(InterpolateFrom(ethanolVvPct, 1))

estimateFlashPoint(ethanolVvPct) ==
  IF RLeq(ethanolVvPct, Zero)
  THEN [celsius |-> Null, rating |-> "Safe", warning |-> "Non-flammable solvent basis"]
  ELSE RateFlashPoint(InterpolateFrom(ethanolVvPct, 1))

\* breakdown.find(b => b.name === 'Ethanol'): index of the first such row, or 0
RECURSIVE FindEthanolFrom(_, _)
FindEthanolFrom(breakdown, i) ==
  IF i > Len(breakdown) THEN 0
  ELSE IF breakdown[i].name = sEthanol THEN i
  ELSE FindEthanolFrom(breakdown, i + 1)

\* ethanolEntry ? ethanolEntry.volume : 0
EthanolVolume(breakdown, e) == IF e # 0 THEN breakdown[e].volume ELSE Zero

\* Ethanol v/v relative to the solvent system
EthanolVvPct(ethanolVol, totalSolventVolume) ==
  IF RGt(totalSolventVolume, Zero)
  THEN RMul(RDiv(ethanolVol, totalSolventVolume), Int2R(100))
  ELSE Zero

\* The returned SolventAnalysis
SolventAnalysisOf(m, breakdown, ethanolVvPct) ==
  [breakdown |-> breakdown,
   totalSolventMass |-> m.totalSolventMass,
   totalSolventVolume |-> m.totalSolventVolume,
   ethanolVvPct |-> ethanolVvPct,
   flashPointEstimate |-> estimateFlashPoint(ethanolVvPct)]

\* Ethanol entry, ethanol v/v and flash point of a sorted breakdown
AnalyzeBreakdown(m, breakdown) ==
  SolventAnalysisOf(m, breakdown,
    EthanolVvPct(EthanolVolume(breakdown, FindEthanolFrom(breakdown, 1)),
                 m.totalSolventVolume))

\* Convert to Array & Calculate Percentages
BreakdownOf(m) ==
  SortByMassFrom(<<>>, [i \in 1..Len(m.keys) |-> BreakdownEntry(m, m.keys[i])], 1)

AnalyzeSolventMap(m) == AnalyzeBreakdown(m, BreakdownOf(m))

calculateSolventBreakdown(formula) ==
  AnalyzeSolventMap(SolventMapFrom(EmptySolventMap, formula, 1))

\* ------------------------------------------------------------------------
\* calculateStats
\* ------------------------------------------------------------------------

\* ItemDensity without the custom density override.
ItemDensityNoCustom(item) ==
  LET d == IF item.ingredientId # "" THEN FindById(INGREDIENTS, item.ingredientId) ELSE 0
  IN  IF d # 0 THEN INGREDIENTS[d].density ELSE One

\* item.customDensity ?? (dbIng ? dbIng.density : 1.0)
ItemDensity(item) ==
  LET d == IF item.ingredientId # "" THEN FindById(INGREDIENTS, item.ingredientId) ELSE 0
  IN  IF item.customDensity # Null THEN item.customDensity[1]
      ELSE IF d # 0 THEN INGREDIENTS[d].density
      ELSE One

ZeroTotals ==
  [totalWeight |-> Zero, totalVolume |-> Zero, totalCost |-> Zero, concentrateMass |-> Zero]

\* AddItemTotals with the whole weight counted as active mass.
AddItemTotalsNoDilution(t, item) ==
  [totalWeight |-> RAdd(t.totalWeight, item.weight),
   totalVolume |-> RAdd(t.totalVolume, RDiv(item.weight, ItemDensity(item))),
   totalCost |-> RAdd(t.totalCost, RMul(RDiv(item.weight, Int2R(1000)), item.costPerKg)),
   concentrateMass |-> RAdd(t.concentrateMass, item.weight)]

\* The body of formula.forEach of calculateStats
AddItemTotals(t, item) ==
  LET density == ItemDensity(item)
      vol == RDiv(item.weight, density)
      activeMass == RMul(item.weight, item.dilution)
  IN  [totalWeight |-> RAdd(t.totalWeight, item.weight),
       totalVolume |-> RAdd(t.totalVolume, vol),
       totalCost |-> RAdd(t.totalCost, RMul(RDiv(item.weight, Int2R(1000)), item.costPerKg)),
       concentrateMass |-> RAdd(t.concentrateMass, activeMass)]

RECURSIVE TotalsFrom(_, _, _)
TotalsFrom(t, formula, i) ==
  IF i > Len(formula) THEN t
  ELSE TotalsFrom(AddItemTotals(t, formula[i]), formula, i + 1)

\* ethEntry ? ethEntry.mass : 0
EthanolMass(breakdown, ethEntry) == IF ethEntry # 0 THEN breakdown[ethEntry].mass ELSE Zero

\* The returned FormulationStats
StatsOf(t, solventAnalysis) ==
  [totalWeight |-> t.totalWeight,
   totalVolume |-> t.totalVolume,
   totalCost |-> t.totalCost,
   ethanolMass |-> EthanolMass(solventAnalysis.breakdown,
                               FindEthanolFrom(solventAnalysis.breakdown, 1)),
   concentrateMass |-> t.concentrateMass,
   solventAnalysis |-> solventAnalysis]

calculateStats(formula) ==
  StatsOf(TotalsFrom(ZeroTotals, formula, 1), calculateSolventBreakdown(formula))

\* ------------------------------------------------------------------------
\* Formulas
\* ------------------------------------------------------------------------

sBergamot == <<"B", "e", "r", "g", "a", "m", "o", "t">>
sLemon == <<"L", "e", "m", "o", "n">>
sCitralItem == <<"C", "i", "t", "r", "a", "l">>
sMusk == <<"M", "u", "s", "k">>
sSafrole == <<"S", "a", "f", "r", "o", "l", "e">>
sPerfumersAlcohol == <<"A", "l", "c", "o", "h", "o", "l">>
sCustom == <<"C", "u", "s", "t", "o", "m">>
sCitrus == <<"C", "i", "t", "r", "u", "s">>
sTop == <<"T", "o", "p">>
sMiddle == <<"M", "i", "d", "d", "l", "e">>
sBase == <<"B", "a", "s", "e">>

Item(ingredientId, name, cas, family, note, weight, dilution, solvent, costPerKg, customDensity) ==
  [ingredientId |-> ingredientId, name |-> name, cas |-> cas, family |-> family,
   note |-> note, weight |-> weight, dilution |-> dilution, solvent |-> solvent,
   costPerKg |-> costPerKg, customDensity |-> customDensity]

\* The formula lines the formulas are built from: each has weight >= 0 and
\* 0 < dilution <= 1.
ItemPool ==
  { \* neat bergamot oil whose own CAS is the mixture marker
    Item("bergamot_oil", sBergamot, casMixture, sCitrus, sTop,
         Int2R(1000), One, sNone, Int2R(120), Null),
    \* bergamot oil whose CAS was edited to that of one of its constituents
    Item("bergamot_oil", sBergamot, casLimonene, sCitrus, sTop,
         Int2R(100), One, sNone, Int2R(120), Null),
    \* lemon oil at 50% in DPG
    Item("lemon_oil", sLemon, casMixture, sCitrus, sTop,
         Int2R(40), Rat(1, 2), sDPG, Int2R(80), Null),
    \* citral, a custom line, CAS typed with surrounding blanks
    Item("", sCitralItem, <<" ", "5392-40-5", " ">>, sCustom, sMiddle,
         Int2R(7), One, sNone, Int2R(60), Some(Rat(9, 10))),
    \* citral at 10% in ethanol, no carrier named
    Item("", sCitralItem, casCitral, sCustom, sMiddle,
         Int2R(50), Rat(1, 10), sEmpty, Int2R(60), Null),
    \* a prohibited material
    Item("", sMusk, casMuskAmbrette, sCustom, sBase,
         Int2R(3), One, sNone, Int2R(900), Null),
    \* a prohibited material whose library entry carries a category limit
    Item("", sSafrole, casSafrole, sCustom, sBase,
         Int2R(1), Rat(1, 10), sIPM, Int2R(300), Null),
    \* ethanol as a direct solvent line
    Item("ethanol", sPerfumersAlcohol, casEthanol, sSolvent, sSolvent,
         Int2R(900), One, sNone, Int2R(10), Null),
    \* a pre-diluted material just added to the formula: no weight yet
    Item("lemon_oil", sLemon, casMixture, sCitrus, sTop,
         Zero, Rat(1, 2), sDPG, Int2R(80), Null),
    \* a custom line without CAS and without weight
    Item("", sCustom, casEmpty, sCustom, sMiddle,
         Zero, One, sNone, Zero, Null) }

\* Every formula of at most MaxItems lines.
Formulas == UNION { [1..n -> ItemPool] : n \in 0..MaxItems }

\* ------------------------------------------------------------------------
\* The engine as the application drives it: statistics first, then the
\* compliance report for a batch weight and the selected category.
\* ------------------------------------------------------------------------

VARIABLES formula, category, totalBatchWeight, stats, report, pc,
          ethanolPct, flashPoint,
          accordGroups, accordTemplates, snapshots, sessionLog, loggingRef, timers,
          checkedItems, confirmClear, cleanupDue, nextId, lastCall

\* The state of App beside the formula and the category.
appVars ==
  <<accordGroups, accordTemplates, snapshots, sessionLog, loggingRef, timers,
    checkedItems, confirmClear, cleanupDue, nextId, lastCall>>

vars ==
  <<formula, category, totalBatchWeight, stats, report, pc, ethanolPct, flashPoint, appVars>>

\* useState / useRef initial values of App
AppIdle ==
  /\ accordGroups = <<>>
  /\ accordTemplates = <<>>
  /\ snapshots = <<>>
  /\ sessionLog = <<>>
  /\ loggingRef = <<>>
  /\ timers = {}
  /\ checkedItems = {}
  /\ confirmClear = FALSE
  /\ cleanupDue = FALSE
  /\ nextId = 1
  /\ lastCall = [kind |-> "none"]

\* Batch weights handed to checkCompliance besides the formula's own total.
OtherBatchWeights == {Zero, Int2R(1000)}

Init ==
  /\ formula \in Formulas
  /\ category \in Categories
  /\ totalBatchWeight = Zero
  /\ stats = Null
  /\ report = <<>>
  /\ pc = "start"
  /\ ethanolPct = Zero
  /\ flashPoint = Null
  /\ AppIdle

\* const stats = useMemo(() => calculateStats(formula), [formula])
CalculateStats ==
  /\ pc = "start"
  /\ stats' = Some(calculateStats(formula))
  /\ pc' = "stats"
  /\ UNCHANGED <<formula, category, totalBatchWeight, report, ethanolPct, flashPoint, appVars>>

\* checkCompliance(formula, stats.totalWeight, category), or with another
\* batch weight
CheckCompliance ==
  /\ pc = "stats"
  /\ \E w \in {stats[1].totalWeight} \cup OtherBatchWeights :
       /\ totalBatchWeight' = w
       /\ report' = checkCompliance(formula, w, category)
  /\ pc' = "done"
  /\ UNCHANGED <<formula, category, stats, ethanolPct, flashPoint, appVars>>

Next == CalculateStats \/ CheckCompliance

Spec == Init /\ [][Next]_vars

\* ------------------------------------------------------------------------
\* The engine on formulas of solvent lines and diluted lines
\* ------------------------------------------------------------------------

sEthanolUpper == <<"E", "T", "H", "A", "N", "O", "L">>
sAquaDPG == <<"A", "q", "u", "a", " ", "D", "P", "G">>
sTecWater == <<"T", "e", "c", " ", "W", "a", "t", "e", "r">>
sIpmLower == <<"i", "p", "m">>
sHexane == <<"H", "e", "x", "a", "n", "e">>
sRose == <<"R", "o", "s", "e">>
sFloral == <<"F", "l", "o", "r", "a", "l">>

\* Solvent lines and diluted lines: each has weight >= 0 and 0 < dilution <= 1.
SolventPool ==
  { \* direct solvent lines, recognised by a substring of the name
    Item("", sEthanolUpper, casEthanol, sSolvent, sSolvent,
         Int2R(789), One, sNone, Int2R(10), Null),
    Item("", sAquaDPG, casEmpty, sSolvent, sMiddle,
         Int2R(51), One, sNone, Int2R(5), Null),
    Item("", sTecWater, casEmpty, sSolvent, sSolvent,
         Int2R(56), One, sNone, Int2R(5), Null),
    Item("", sBenzylBenzoate, casEmpty, sSolvent, sBase,
         Int2R(112), One, sNone, Int2R(5), Null),
    Item("", sIpmLower, casEmpty, sSolvent, sSolvent,
         Int2R(17), One, sNone, Int2R(5), Null),
    \* tagged by the note only
    Item("", sWaterAqua, casEmpty, sCustom, sSolvent,
         Int2R(100), One, sNone, Zero, Null),
    \* direct solvent lines with names no rule recognises
    Item("", sHexane, casEmpty, sSolvent, sSolvent,
         Int2R(30), One, sNone, Int2R(5), Null),
    Item("", sNone, casEmpty, sSolvent, sSolvent,
         Int2R(25), One, sNone, Int2R(5), Null),
    \* a line tagged Solvent that is itself diluted, no carrier named
    Item("", sDPG, casEmpty, sSolvent, sSolvent,
         Int2R(1578), Rat(1, 2), sNone, Int2R(5), Null),
    \* diluted lines with a named carrier
    Item("", sRose, casEmpty, sFloral, sMiddle,
         Int2R(100), Rat(1, 10), sWater, Int2R(500), Null),
    Item("", sRose, casEmpty, sFloral, sMiddle,
         Int2R(60), Rat(1, 2), sHexane, Int2R(500), Null),
    \* a neat line that is no solvent
    Item("", sRose, casEmpty, sFloral, sMiddle,
         Int2R(10), One, sNone, Int2R(500), Null) }

SolventFormulas == UNION { [1..n -> SolventPool] : n \in 0..MaxItems }

InitSolvent ==
  /\ formula \in SolventFormulas
  /\ category = "4"
  /\ totalBatchWeight = Zero
  /\ stats = Null
  /\ report = <<>>
  /\ pc = "start"
  /\ ethanolPct = Zero
  /\ flashPoint = Null
  /\ AppIdle

SpecSolvent == InitSolvent /\ [][Next]_vars

\* ------------------------------------------------------------------------
\* The flash-point estimator on its own
\* ------------------------------------------------------------------------

\* The percentage at which the curve crosses 60 C, beside the grid.
Percentages ==
  {Rat(k, PctDen) : k \in (-2 * PctDen)..(MaxPct * PctDen)} \cup {Rat(75, 13)}

InitFlash ==
  /\ formula = <<>>
  /\ category = "4"
  /\ totalBatchWeight = Zero
  /\ stats = Null
  /\ report = <<>>
  /\ pc = "start"
  /\ ethanolPct \in Percentages
  /\ flashPoint = Null
  /\ AppIdle

\* const flashPointEstimate = estimateFlashPoint(ethanolVvPct)
EstimateFlashPoint ==
  /\ flashPoint = Null
  /\ flashPoint' = Some(estimateFlashPoint(ethanolPct))
  /\ UNCHANGED <<formula, category, totalBatchWeight, stats, report, pc, ethanolPct, appVars>>

NextFlash == EstimateFlashPoint

SpecFlash == InitFlash /\ [][NextFlash]_vars

\* ------------------------------------------------------------------------
\* Properties of checkCompliance
\* ------------------------------------------------------------------------

Rows == 1..Len(report)

Items == 1..Len(formula)

\* The sum of f[1..n].
RECURSIVE SumTo(_, _)
SumTo(f, n) == IF n = 0 THEN Zero ELSE RAdd(SumTo(f, n - 1), f[n])

Sum(f) == SumTo(f, Len(f))

HasDirectCas(item) == Trim(item.cas) # <<>> /\ Trim(item.cas) # casMixture

HasExpansion(item) ==
  item.ingredientId # "" /\ \E n \in 1..Len(NCS_DATA) : NCS_DATA[n].id = item.ingredientId

Constituents(item) == NCS_DATA[FindById(NCS_DATA, item.ingredientId)].constituents

\* Mass attributed to CAS c by the items' own CAS.
DirectMass(c) ==
  Sum([i \in Items |->
         IF HasDirectCas(formula[i]) /\ Trim(formula[i].cas) = c
         THEN RMul(formula[i].weight, formula[i].dilution) ELSE Zero])

\* Mass attributed to CAS c by constituent expansion.
HiddenMass(c) ==
  Sum([i \in Items |->
         IF HasExpansion(formula[i])
         THEN LET cs == Constituents(formula[i])
              IN  Sum([j \in 1..Len(cs) |->
                         IF cs[j].cas = c
                         THEN RMul(RMul(formula[i].weight, formula[i].dilution), cs[j].percent)
                         ELSE Zero])
         ELSE Zero])

\* The CAS numbers that appear in the formula, directly or through expansion.
AppearingCas ==
  {Trim(formula[i].cas) : i \in {k \in Items : HasDirectCas(formula[k])}}
  \cup UNION {{Constituents(formula[i])[j].cas : j \in 1..Len(Constituents(formula[i]))} :
                i \in {k \in Items : HasExpansion(formula[k])}}

HasCategoryLimit(entry) == "limits" \in DOMAIN entry /\ category \in DOMAIN entry.limits

\* C1: every row whose library entry is typed 'prohibited' reports the limit
\* 0, for every category, also when the entry's limit map holds a number for
\* the chosen category.
C1_ProhibitedLimitIsZero ==
  pc = "done" =>
    \A r \in Rows : IFRA_LIBRARY[report[r].cas].type = "prohibited" => report[r].limit = Zero

\* C2: the totalMass of every reported CAS is the direct mass of that CAS
\* plus the hidden-constituent mass of that CAS, the two added together.
C2_MassIsDirectPlusHidden ==
  pc = "done" =>
    \A r \in Rows :
      report[r].totalMass = RAdd(DirectMass(report[r].cas), HiddenMass(report[r].cas))

\* C2 witness: a reported CAS with both a direct and a hidden contribution.
C2_Witness ==
  /\ pc = "done"
  /\ \E r \in Rows : /\ RGt(DirectMass(report[r].cas), Zero)
                     /\ RGt(HiddenMass(report[r].cas), Zero)

\* C3: checked with the formula's own total weight (> 0), every row whose
\* entry is not prohibited and has no limit for the category has limit 100%
\* and is compliant.
C3_NoLimitIsCompliant ==
  (pc = "done" /\ totalBatchWeight = stats[1].totalWeight /\ RGt(totalBatchWeight, Zero)) =>
    \A r \in Rows :
      LET entry == IFRA_LIBRARY[report[r].cas]
      IN  (entry.type # "prohibited" /\ ~HasCategoryLimit(entry)) =>
            (report[r].limit = One /\ report[r].isCompliant)

\* C4: for a non-zero batch weight there is exactly one row for each CAS
\* that appears in the formula and has a library entry, and no other row.
C4_OneRowPerListedCas ==
  (pc = "done" /\ totalBatchWeight # Zero) =>
    /\ {report[r].cas : r \in Rows} = AppearingCas \cap DOMAIN IFRA_LIBRARY
    /\ \A r1, r2 \in Rows : report[r1].cas = report[r2].cas => r1 = r2

\* C4 witness: a report with rows, for a formula in which a CAS without
\* library entry has mass and a CAS was typed with blanks around it.
C4_Witness ==
  /\ pc = "done" /\ totalBatchWeight # Zero /\ report # <<>>
  /\ \E c \in AppearingCas : c \notin DOMAIN IFRA_LIBRARY /\ RGt(HiddenMass(c), Zero)
  /\ \E i \in Items : HasDirectCas(formula[i]) /\ Trim(formula[i].cas) # formula[i].cas

\* C5: with a zero batch weight the report is empty, whatever the formula and
\* category; the empty formula has total weight 0 and an empty report.
C5_ZeroBatchWeightGivesEmpty ==
  /\ (pc = "done" /\ totalBatchWeight = Zero) => report = <<>>
  /\ (pc # "start" /\ formula = <<>>) => stats[1].totalWeight = Zero
  /\ (pc = "done" /\ formula = <<>>) => report = <<>>

\* C5 witness: a zero batch weight for a formula with a listed CAS.
C5_Witness ==
  /\ pc = "done" /\ totalBatchWeight = Zero
  /\ AppearingCas \cap DOMAIN IFRA_LIBRARY # {}

\* The limit percentage a row is checked against.
ApplicablePercent(entry) ==
  IF HasCategoryLimit(entry) THEN entry.limits[category]
  ELSE IF entry.type = "prohibited" THEN Zero ELSE Int2R(100)

\* C6: in every row concentration = totalMass / totalBatchWeight, the limit
\* is the limit percentage / 100, and the row is compliant exactly when
\* concentration <= limit; a concentration equal to the limit is compliant.
C6_CompliantIffWithinLimit ==
  pc = "done" =>
    \A r \in Rows :
      LET row == report[r]
      IN  /\ IsFinite(row.concentration)
          /\ RMul(row.concentration, totalBatchWeight) = row.totalMass
          /\ row.limit.num * 100 * ApplicablePercent(IFRA_LIBRARY[row.cas]).den
               = ApplicablePercent(IFRA_LIBRARY[row.cas]).num * row.limit.den
          /\ row.isCompliant <=>
               (row.concentration.num * row.limit.den <= row.limit.num * row.concentration.den)
          /\ row.concentration = row.limit => row.isCompliant

\* C6 witness: a row whose concentration equals its limit, beside a row over
\* its limit.
C6_Witness ==
  /\ pc = "done"
  /\ \E r \in Rows : report[r].concentration = report[r].limit /\ report[r].isCompliant
  /\ \E r \in Rows : ~report[r].isCompliant

\* The CAS keys in the order the items accumulate them.
RECURSIVE CasEventsFrom(_)
CasEventsFrom(i) ==
  IF i > Len(formula) THEN <<>>
  ELSE (IF HasDirectCas(formula[i]) THEN <<Trim(formula[i].cas)>> ELSE <<>>)
       \o (IF HasExpansion(formula[i])
           THEN [j \in 1..Len(Constituents(formula[i])) |-> Constituents(formula[i])[j].cas]
           ELSE <<>>)
       \o CasEventsFrom(i + 1)

\* The position at which CAS c was first accumulated.
FirstAccumulated(c) ==
  CHOOSE k \in 1..Len(CasEventsFrom(1)) :
    /\ CasEventsFrom(1)[k] = c
    /\ \A l \in 1..(k - 1) : CasEventsFrom(1)[l] # c

\* C7: every non-compliant row precedes every compliant row, and rows of the
\* same group are in the order in which their CAS was first accumulated.
C7_NonCompliantFirstStable ==
  pc = "done" =>
    \A r1, r2 \in Rows :
      r1 < r2 =>
        /\ ~(report[r1].isCompliant /\ ~report[r2].isCompliant)
        /\ report[r1].isCompliant = report[r2].isCompliant =>
             FirstAccumulated(report[r1].cas) < FirstAccumulated(report[r2].cas)

\* C7 witness: two compliant rows and two non-compliant rows, one of the
\* non-compliant ones accumulated after a compliant one.
C7_Witness ==
  /\ pc = "done"
  /\ \E r1, r2 \in Rows : r1 < r2 /\ report[r1].isCompliant /\ report[r2].isCompliant
  /\ \E r1, r2 \in Rows : r1 < r2 /\ ~report[r1].isCompliant /\ ~report[r2].isCompliant
  /\ \E r1, r2 \in Rows :
       /\ ~report[r1].isCompliant /\ report[r2].isCompliant
       /\ FirstAccumulated(report[r2].cas) < FirstAccumulated(report[r1].cas)

\* The formula of the example: one neat 1000 g line, CAS 'Mixture', linked to
\* bergamot_oil, checked against its own weight.
IsBergamotExample ==
  /\ pc = "done" /\ Len(formula) = 1 /\ totalBatchWeight = Int2R(1000)
  /\ formula[1].ingredientId = "bergamot_oil" /\ formula[1].cas = casMixture
  /\ formula[1].weight = Int2R(1000) /\ formula[1].dilution = One

\* C8: a line whose CAS is empty or 'Mixture' adds no direct mass but still
\* adds its hidden constituents; in the example CAS 484-20-8 gets 2 g,
\* concentration 0.002, reason 'Restriction', compliant iff the category
\* limit is >= 0.2%.
C8_MixtureStillExpands ==
  /\ (pc = "done" /\ totalBatchWeight # Zero /\ \A i \in Items : ~HasDirectCas(formula[i])) =>
       /\ \A r \in Rows : /\ report[r].totalMass = HiddenMass(report[r].cas)
                          /\ DirectMass(report[r].cas) = Zero
       /\ \A i \in Items : HasExpansion(formula[i]) =>
            \A j \in 1..Len(Constituents(formula[i])) :
              Constituents(formula[i])[j].cas \in DOMAIN IFRA_LIBRARY =>
                \E r \in Rows : report[r].cas = Constituents(formula[i])[j].cas
  /\ IsBergamotExample =>
       \E r \in Rows :
         /\ report[r].cas = casBergapten
         /\ report[r].totalMass = Int2R(2)
         /\ report[r].concentration = Rat(2, 1000)
         /\ report[r].reason = "Restriction"
         /\ report[r].isCompliant <=>
              RGeq(ApplicablePercent(IFRA_LIBRARY[casBergapten]), Rat(2, 10))

\* C8 witness: the example, checked in a category whose limit is below 0.2%.
C8_Witness ==
  /\ IsBergamotExample
  /\ RLt(ApplicablePercent(IFRA_LIBRARY[casBergapten]), Rat(2, 10))

\* ------------------------------------------------------------------------
\* Properties of calculateStats
\* ------------------------------------------------------------------------

HasMaster(item) ==
  item.ingredientId # "" /\ \E n \in 1..Len(INGREDIENTS) : INGREDIENTS[n].id = item.ingredientId

\* density_i: the custom density if present, else the master ingredient's,
\* else 1.0
ResolvedDensity(item) ==
  IF item.customDensity # Null THEN item.customDensity[1]
  ELSE IF HasMaster(item)
  THEN (CHOOSE ing \in {INGREDIENTS[n] : n \in 1..Len(INGREDIENTS)} :
          ing.id = item.ingredientId).density
  ELSE One

Totals(s) ==
  [totalWeight |-> s.totalWeight, totalVolume |-> s.totalVolume,
   totalCost |-> s.totalCost, concentrateMass |-> s.concentrateMass]

Permuted(p) == [i \in Items |-> formula[p[i]]]

\* C9: the four totals are the sums over the items, with the resolved
\* density, and are the same for every order of the items.
C9_TotalsAreSums ==
  pc # "start" =>
    /\ stats[1].totalWeight = Sum([i \in Items |-> formula[i].weight])
    /\ stats[1].totalVolume =
         Sum([i \in Items |-> RDiv(formula[i].weight, ResolvedDensity(formula[i]))])
    /\ stats[1].totalCost =
         Sum([i \in Items |-> RMul(RDiv(formula[i].weight, Int2R(1000)), formula[i].costPerKg)])
    /\ stats[1].concentrateMass =
         Sum([i \in Items |-> RMul(formula[i].weight, formula[i].dilution)])
    /\ \A p \in Permutations(Items) :
         Totals(calculateStats(Permuted(p))) = Totals(stats[1])

\* C9 witness: statistics of a formula of different lines, one with a custom
\* density and one that takes the density of its master ingredient.
C9_Witness ==
  /\ pc = "stats"
  /\ \E i, j \in Items :
       /\ formula[i] # formula[j]
       /\ formula[i].customDensity # Null /\ RGt(formula[i].weight, Zero)
       /\ formula[i].customDensity[1] # One
       /\ formula[j].customDensity = Null /\ HasMaster(formula[j])
       /\ RGt(formula[j].weight, Zero)

\* C10 as stated: concentrateMass <= totalWeight, with equality iff every
\* item has dilution 1.
C10_EqualityIffAllNeat ==
  pc # "start" =>
    /\ RLeq(stats[1].concentrateMass, stats[1].totalWeight)
    /\ stats[1].concentrateMass = stats[1].totalWeight <=>
         \A i \in Items : formula[i].dilution = One

\* C10 amended: concentrateMass <= totalWeight, with equality iff every item
\* of positive weight has dilution 1.
C10_EqualityIffAllWeighedNeat ==
  pc # "start" =>
    /\ RLeq(stats[1].concentrateMass, stats[1].totalWeight)
    /\ stats[1].concentrateMass = stats[1].totalWeight <=>
         \A i \in Items : RGt(formula[i].weight, Zero) => formula[i].dilution = One

\* C10 witness: equality for a formula with a weighed neat line and a
\* diluted line of weight 0.
C10_Witness ==
  /\ pc = "stats"
  /\ stats[1].concentrateMass = stats[1].totalWeight
  /\ \E i \in Items : RGt(formula[i].weight, Zero)
  /\ \E i \in Items : formula[i].weight = Zero /\ RLt(formula[i].dilution, One)

\* ------------------------------------------------------------------------
\* The solvent breakdown
\* ------------------------------------------------------------------------

SolventAnalysis == stats[1].solventAnalysis

BreakdownRows == 1..Len(SolventAnalysis.breakdown)

\* C11: the masses of the breakdown rows sum to totalSolventMass and their
\* volumes to totalSolventVolume, no two rows carry the same name, and when
\* totalSolventMass is positive the massPct values sum to 100.
C11_BreakdownSumsToTotals ==
  pc # "start" =>
    /\ Sum([r \in BreakdownRows |-> SolventAnalysis.breakdown[r].mass])
         = SolventAnalysis.totalSolventMass
    /\ Sum([r \in BreakdownRows |-> SolventAnalysis.breakdown[r].volume])
         = SolventAnalysis.totalSolventVolume
    /\ \A r, q \in BreakdownRows :
         SolventAnalysis.breakdown[r].name = SolventAnalysis.breakdown[q].name => r = q
    /\ RGt(SolventAnalysis.totalSolventMass, Zero) =>
         Sum([r \in BreakdownRows |-> SolventAnalysis.breakdown[r].massPct]) = Int2R(100)

\* Two carriers of different mass, so that the percentages are not trivial.
C11_Witness ==
  /\ pc # "start"
  /\ Len(SolventAnalysis.breakdown) = 2
  /\ SolventAnalysis.breakdown[1].mass # SolventAnalysis.breakdown[2].mass
  /\ RGt(SolventAnalysis.totalSolventVolume, Zero)

IsDiluted(item) == RLt(item.dilution, One)

IsTaggedSolvent(item) == item.family = sSolvent \/ item.note = sSolvent

IsDirectSolventLine(item) == item.dilution = One /\ IsTaggedSolvent(item)

DeclaredCarrier(item) ==
  IF item.solvent = sEmpty \/ item.solvent = sNone THEN sEthanol ELSE item.solvent

\* The mass that item i gives to the carrier called name.
CarrierMassOf(i, name) ==
  IF IsDiluted(formula[i])
  THEN IF DeclaredCarrier(formula[i]) = name
       THEN RMul(formula[i].weight, RSub(One, formula[i].dilution)) ELSE Zero
  ELSE IF IsDirectSolventLine(formula[i]) /\ NormalizeSolventName(formula[i].name) = name
  THEN formula[i].weight
  ELSE Zero

SolventRules ==
  << [needles |-> {<<"e", "t", "h", "a", "n", "o", "l">>,
                   <<"a", "l", "c", "o", "h", "o", "l">>}, carrier |-> sEthanol],
     [needles |-> {<<"d", "p", "g">>}, carrier |-> sDPG],
     [needles |-> {<<"i", "p", "m">>}, carrier |-> sIPM],
     [needles |-> {<<"t", "e", "c">>}, carrier |-> sTEC],
     [needles |-> {<<"w", "a", "t", "e", "r">>, <<"a", "q", "u", "a">>}, carrier |-> sWater],
     [needles |-> {<<"b", "b">>,
                   <<"b", "e", "n", "z", "y", "l", " ",
                     "b", "e", "n", "z", "o", "a", "t", "e">>}, carrier |-> sBB] >>

RuleMatches(k, name) == \E needle \in SolventRules[k].needles : includes(toLowerCase(name), needle)

MatchingRules(name) == {k \in 1..Len(SolventRules) : RuleMatches(k, name)}

FirstRule(name) == CHOOSE k \in MatchingRules(name) : \A j \in MatchingRules(name) : k <= j

RuleCarrier(name) ==
  IF MatchingRules(name) = {} THEN name ELSE SolventRules[FirstRule(name)].carrier

\* C13: a direct solvent line of positive weight is booked under the carrier
\* of the first synonym rule its name matches, without regard to case, and
\* under its own name when no rule matches; the row of an unmatched name
\* exists and has density 1.0 (its volume equals its mass).
C13_DirectLineCarrierName ==
  pc # "start" =>
    \A i \in Items :
      IsDirectSolventLine(formula[i]) /\ RGt(formula[i].weight, Zero) =>
        \E r \in BreakdownRows :
          /\ SolventAnalysis.breakdown[r].name = RuleCarrier(formula[i].name)
          /\ RGeq(SolventAnalysis.breakdown[r].mass, formula[i].weight)
          /\ MatchingRules(formula[i].name) = {} =>
               SolventAnalysis.breakdown[r].volume = SolventAnalysis.breakdown[r].mass

\* The same statement for every name but the literal 'None'.
C13_ExceptNamedNone ==
  pc # "start" =>
    \A i \in Items :
      /\ IsDirectSolventLine(formula[i]) /\ RGt(formula[i].weight, Zero)
      /\ formula[i].name # sNone
      => \E r \in BreakdownRows :
          /\ SolventAnalysis.breakdown[r].name = RuleCarrier(formula[i].name)
          /\ RGeq(SolventAnalysis.breakdown[r].mass, formula[i].weight)
          /\ MatchingRules(formula[i].name) = {} =>
               SolventAnalysis.breakdown[r].volume = SolventAnalysis.breakdown[r].mass

EthanolRows == {r \in BreakdownRows : SolventAnalysis.breakdown[r].name = sEthanol}

\* The volume of the row named 'Ethanol', 0 without such a row.
EthanolRowVolume ==
  IF EthanolRows = {} THEN Zero
  ELSE SolventAnalysis.breakdown[CHOOSE r \in EthanolRows : TRUE].volume

\* C14: ethanolVvPct is 100 x (volume of the row named 'Ethanol') /
\* totalSolventVolume when totalSolventVolume is positive and 0 when there is
\* no solvent; it lies in [0, 100]; the breakdown rows are in non-increasing
\* order of mass.
C14_EthanolShareAndRowOrder ==
  pc # "start" =>
    /\ RGt(SolventAnalysis.totalSolventVolume, Zero) =>
         SolventAnalysis.ethanolVvPct
           = RMul(Int2R(100), RDiv(EthanolRowVolume, SolventAnalysis.totalSolventVolume))
    /\ SolventAnalysis.breakdown = <<>> => SolventAnalysis.ethanolVvPct = Zero
    /\ RLeq(Zero, SolventAnalysis.ethanolVvPct)
    /\ RLeq(SolventAnalysis.ethanolVvPct, Int2R(100))
    /\ \A r, q \in BreakdownRows :
         r < q => RGeq(SolventAnalysis.breakdown[r].mass, SolventAnalysis.breakdown[q].mass)

\* Ethanol beside a lighter carrier that was met first: the sort moves the
\* Ethanol row to the front and the share lies strictly between 0 and 100.
C14_Witness ==
  /\ pc # "start"
  /\ Len(SolventAnalysis.breakdown) = 2
  /\ SolventAnalysis.breakdown[1].name = sEthanol
  /\ CarrierMassOf(1, sEthanol) = Zero
  /\ RGt(CarrierMassOf(1, SolventAnalysis.breakdown[2].name), Zero)
  /\ RGt(SolventAnalysis.breakdown[1].mass, SolventAnalysis.breakdown[2].mass)
  /\ RLt(Zero, SolventAnalysis.ethanolVvPct)
  /\ RLt(SolventAnalysis.ethanolVvPct, Int2R(100))

\* ------------------------------------------------------------------------
\* The flash-point estimate
\* ------------------------------------------------------------------------

Estimated == flashPoint # Null

Estimate == flashPoint[1]

\* C15: the estimate has no temperature and the rating 'Safe' exactly when
\* the ethanol percentage is at most 0; for every percentage above 0 the
\* temperature is a number and the rating is High, Flammable or Low.
C15_SafeIffNotPositive ==
  Estimated =>
    /\ RLeq(ethanolPct, Zero) => Estimate.celsius = Null /\ Estimate.rating = "Safe"
    /\ RGt(ethanolPct, Zero) =>
         /\ Estimate.celsius # Null
         /\ IsFinite(Estimate.celsius[1])
         /\ Estimate.rating \in {"High", "Flammable", "Low"}

\* A percentage just above 0, where the curve is near 100 C.
C15_Witness ==
  /\ Estimated
  /\ RGt(ethanolPct, Zero) /\ RLt(ethanolPct, One)
  /\ Estimate.rating = "Low"

ControlPct(k) == Int2R(FlashPoints[k][1])

ControlTemp(k) == Int2R(FlashPoints[k][2])

Segments == 1..(Len(FlashPoints) - 1)

\* The point of the chord of segment k above percentage p.
OnChord(k, p) ==
  RDiv(RAdd(RMul(ControlTemp(k), RSub(ControlPct(k + 1), p)),
            RMul(ControlTemp(k + 1), RSub(p, ControlPct(k)))),
       RSub(ControlPct(k + 1), ControlPct(k)))

\* C16: for 0 < p <= 100 the temperature lies on the chord between the two
\* control points that bracket p, so at a control point it is that point's
\* temperature; for p >= 100 it is 13.
C16_LinearBetweenControlPoints ==
  Estimated /\ RGt(ethanolPct, Zero) =>
    /\ RLeq(ethanolPct, Int2R(100)) =>
         \E k \in Segments :
           /\ RLeq(ControlPct(k), ethanolPct) /\ RLeq(ethanolPct, ControlPct(k + 1))
           /\ Estimate.celsius = Some(OnChord(k, ethanolPct))
    /\ \A k \in 2..Len(FlashPoints) :
         ethanolPct = ControlPct(k) => Estimate.celsius = Some(ControlTemp(k))
    /\ RGeq(ethanolPct, Int2R(100)) => Estimate.celsius = Some(Int2R(13))

\* A percentage strictly inside the segment from (5, 62) to (10, 49).
C16_Witness ==
  /\ Estimated
  /\ RLt(Int2R(5), ethanolPct) /\ RLt(ethanolPct, Int2R(10))
  /\ RLt(Int2R(49), Estimate.celsius[1]) /\ RLt(Estimate.celsius[1], Int2R(62))

Severity(rating) ==
  IF rating = "High" THEN 3 ELSE IF rating = "Flammable" THEN 2
  ELSE IF rating = "Low" THEN 1 ELSE 0

\* C17: the temperature never rises with the ethanol percentage: every
\* smaller positive percentage has a temperature at least as high and a
\* rating at most as severe.
C17_TemperatureNeverRises ==
  Estimated /\ RGt(ethanolPct, Zero) =>
    \A p1 \in Percentages :
      RGt(p1, Zero) /\ RLeq(p1, ethanolPct) =>
        /\ RGeq(estimateFlashPoint(p1).celsius[1], Estimate.celsius[1])
        /\ Severity(estimateFlashPoint(p1).rating) <= Severity(Estimate.rating)

\* A percentage rated High with a smaller percentage rated Low.
C17_Witness ==
  /\ Estimated
  /\ Estimate.rating = "High"
  /\ \E p1 \in Percentages :
       RGt(p1, Zero) /\ RLt(p1, ethanolPct) /\ estimateFlashPoint(p1).rating = "Low"

\* C18 as stated: at exactly 70% the temperature is exactly 21 C, on the
\* segment from (60, 22) to (70, 21), and the rating is 'Flammable'.
C18_SeventyIsFlammable ==
  Estimated /\ ethanolPct = Int2R(70) =>
    /\ Estimate.celsius = Some(Int2R(21))
    /\ Estimate.celsius = Some(OnChord(8, ethanolPct))
    /\ Estimate.rating = "Flammable"

\* C18: at exactly 70% the temperature is exactly 21 C, on the segment from
\* (60, 22) to (70, 21), and the rating is 'High', 21 being below 23.
C18_SeventyIsHigh ==
  Estimated /\ ethanolPct = Int2R(70) =>
    /\ ControlPct(8) = Int2R(60) /\ ControlTemp(8) = Int2R(22)
    /\ ControlPct(9) = Int2R(70) /\ ControlTemp(9) = Int2R(21)
    /\ Estimate.celsius = Some(Int2R(21))
    /\ Estimate.celsius = Some(OnChord(8, ethanolPct))
    /\ Estimate.rating = "High"

C18_Witness == Estimated /\ ethanolPct = Int2R(70) /\ Estimate.celsius = Some(Int2R(21))

\* C19: for every temperature the rating is 'High' iff T < 23, 'Flammable'
\* iff 23 <= T < 60 and 'Low' iff T >= 60, each with its own warning.
C19_RatingByTemperature ==
  Estimated /\ Estimate.celsius # Null =>
    /\ Estimate.rating = "High" <=> RLt(Estimate.celsius[1], Int2R(23))
    /\ Estimate.rating = "Flammable" <=>
         RGeq(Estimate.celsius[1], Int2R(23)) /\ RLt(Estimate.celsius[1], Int2R(60))
    /\ Estimate.rating = "Low" <=> RGeq(Estimate.celsius[1], Int2R(60))
    /\ Estimate.rating = "High" =>
         Estimate.warning = "High flammability / shipping constraints likely"
    /\ Estimate.rating = "Flammable" =>
         Estimate.warning = "Flammable - review shipping/storage"
    /\ Estimate.rating = "Low" =>
         Estimate.warning = "Lower flammability (still validate)"

\* The temperature 23 C itself, reached at 55%.
C19_Witness ==
  /\ Estimated
  /\ Estimate.celsius = Some(Int2R(23))
  /\ Estimate.rating = "Flammable"

\* ------------------------------------------------------------------------
\* BatchTools: handleScale and handleAdjustSolvent
\* ------------------------------------------------------------------------

\* accordId: null
NoAccord == 0

\* A formula line with the fields App adds to it.
AppItem(uuid, accordId, item) == item @@ [uuid |-> uuid, accordId |-> accordId]

\* formula.map(item => ({...item, weight: item.weight * ratio}))
ScaleAll(items, ratio) ==
  [i \in 1..Len(items) |-> [items[i] EXCEPT !.weight = RMul(@, ratio)]]

\* formula.find(i => i.ingredientId === targetIngredientId): index or 0. The
\* id of a custom line is null, which no value of the select equals.
RECURSIVE FindIngredientFrom(_, _, _)
FindIngredientFrom(items, targetIngredientId, i) ==
  IF i > Len(items) THEN 0
  ELSE IF targetIngredientId # "" /\ items[i].ingredientId = targetIngredientId THEN i
  ELSE FindIngredientFrom(items, targetIngredientId, i + 1)

\* The ratio of handleScale and the scaled formula; target is
\* parseFloat(scaleTarget)
ScaleByReference(items, target, k) ==
  IF k = 0 THEN items
  ELSE IF items[k].weight = Zero THEN items
  ELSE ScaleAll(items, RDiv(target, items[k].weight))

ScaleByTotal(items, target, totalWeight) ==
  IF totalWeight = Zero THEN items ELSE ScaleAll(items, RDiv(target, totalWeight))

\* handleScale that takes the ratio from the total weight in both modes.
handleScaleTotalOnly(items, target, scaleMode, targetIngredientId) ==
  IF IsNaN(target) \/ target = Zero \/ RLeq(target, Zero) THEN items
  ELSE IF calculateStats(items).totalWeight = Zero THEN items
  ELSE ScaleAll(items, RDiv(target, calculateStats(items).totalWeight))

handleScale(items, target, scaleMode, targetIngredientId) ==
  IF IsNaN(target) \/ target = Zero \/ RLeq(target, Zero) THEN items
  ELSE IF scaleMode = "total"
  THEN ScaleByTotal(items, target, calculateStats(items).totalWeight)
  ELSE ScaleByReference(items, target, FindIngredientFrom(items, targetIngredientId, 1))

sBBLong == <<"B", "B", " ", "(", "B", "e", "n", "z", "y", "l", " ", "B", "e", "n", "z", "o", "a", "t", "e", ")">>
sJojobaOil == <<"J", "o", "j", "o", "b", "a", " ", "O", "i", "l">>

\* Standard Solvents to specifically look for or create
STANDARD_SOLVENTS ==
  << [name |-> sEthanol, idMatch |-> <<"e", "t", "h", "a", "n", "o", "l">>],
     [name |-> sDPG, idMatch |-> <<"d", "p", "g">>],
     [name |-> sIPM, idMatch |-> <<"i", "p", "m">>],
     [name |-> sTEC, idMatch |-> <<"t", "e", "c">>],
     [name |-> sBBLong, idMatch |-> <<"b", "e", "n", "z", "y", "l", " ", "b", "e", "n", "z", "o", "a", "t", "e">>],
     [name |-> sWaterAqua, idMatch |-> <<"w", "a", "t", "e", "r">>],
     [name |-> sJojobaOil, idMatch |-> <<"j", "o", "j", "o", "b", "a">>] >>

\* selectedSolvent.split(' ')[0]
RECURSIVE FirstWordFrom(_, _)
FirstWordFrom(s, i) ==
  IF i > Len(s) THEN s
  ELSE IF s[i] = " " THEN SubSeq(s, 1, i - 1)
  ELSE FirstWordFrom(s, i + 1)

\* The test of formula.findIndex in handleAdjustSolvent
IsSolventRow(item, selectedSolvent) ==
  \/ includes(toLowerCase(item.name), toLowerCase(selectedSolvent))
  \/ /\ item.family = sSolvent
     /\ includes(toLowerCase(item.name), toLowerCase(FirstWordFrom(selectedSolvent, 1)))

\* formula.findIndex(...): index or 0
RECURSIVE FindSolventRowFrom(_, _, _)
FindSolventRowFrom(items, selectedSolvent, i) ==
  IF i > Len(items) THEN 0
  ELSE IF IsSolventRow(items[i], selectedSolvent) THEN i
  ELSE FindSolventRowFrom(items, selectedSolvent, i + 1)

\* INGREDIENTS.find(i => i.name.toLowerCase().includes(needle)): index or 0
RECURSIVE FindIngredientByNameFrom(_, _)
FindIngredientByNameFrom(needle, i) ==
  IF i > Len(INGREDIENTS) THEN 0
  ELSE IF includes(toLowerCase(INGREDIENTS[i].name), needle) THEN i
  ELSE FindIngredientByNameFrom(needle, i + 1)

\* STANDARD_SOLVENTS.find(s => s.name === selectedSolvent): index or 0
RECURSIVE FindStandardFrom(_, _)
FindStandardFrom(selectedSolvent, i) ==
  IF i > Len(STANDARD_SOLVENTS) THEN 0
  ELSE IF STANDARD_SOLVENTS[i].name = selectedSolvent THEN i
  ELSE FindStandardFrom(selectedSolvent, i + 1)

\* INGREDIENTS.find(i => i.family === 'Solvent'): index or 0
RECURSIVE FindSolventFamilyFrom(_)
FindSolventFamilyFrom(i) ==
  IF i > Len(INGREDIENTS) THEN 0
  ELSE IF INGREDIENTS[i].family = sSolvent THEN i
  ELSE FindSolventFamilyFrom(i + 1)

\* dbIng after the two fallbacks: index or 0
ByStandardMatch(std) ==
  IF std # 0 THEN FindIngredientByNameFrom(STANDARD_SOLVENTS[std].idMatch, 1) ELSE 0

OrSolventFamily(d) == IF d # 0 THEN d ELSE FindSolventFamilyFrom(1)

OrStandardMatch(d, selectedSolvent) ==
  IF d # 0 THEN d ELSE ByStandardMatch(FindStandardFrom(selectedSolvent, 1))

FindSolventIngredient(selectedSolvent) ==
  OrSolventFamily(
    OrStandardMatch(FindIngredientByNameFrom(toLowerCase(selectedSolvent), 1),
                    selectedSolvent))

\* const newItem: FormulaItem = {...}
NewSolventItem(uuid, d, selectedSolvent, weight) ==
  AppItem(uuid, NoAccord,
    Item(IF d # 0 THEN INGREDIENTS[d].id ELSE "custom-solvent",
         IF d # 0 THEN INGREDIENTS[d].name ELSE selectedSolvent,
         IF d # 0 THEN INGREDIENTS[d].cas ELSE casEmpty,
         sSolvent, sSolvent, weight, One, sNone,
         IF d # 0 /\ INGREDIENTS[d].costPerKg # Zero THEN INGREDIENTS[d].costPerKg
         ELSE Int2R(10),
         Null))

\* UPDATE existing solvent row, or CREATE new solvent row
PutSolventRow(items, k, uuid, selectedSolvent, weight) ==
  IF k # 0 THEN [items EXCEPT ![k].weight = weight]
  ELSE Append(items, NewSolventItem(uuid, FindSolventIngredient(selectedSolvent),
                                    selectedSolvent, weight))

\* newTotalSolventWeight and the test newTotalSolventWeight <= 0
SetSolventWeight(items, k, uuid, selectedSolvent, newTotalSolventWeight) ==
  IF RLeq(newTotalSolventWeight, Zero) THEN items
  ELSE PutSolventRow(items, k, uuid, selectedSolvent, newTotalSolventWeight)

\* requiredTotalWeight - (stats.totalWeight - currentSolventRowWeight)
NewTotalSolventWeight(s, targetPercent, currentSolventRowWeight) ==
  RSub(RDiv(s.concentrateMass, RDiv(targetPercent, Int2R(100))),
       RSub(s.totalWeight, currentSolventRowWeight))

AdjustWithStats(items, s, k, uuid, targetPercent, selectedSolvent) ==
  IF s.concentrateMass = Zero THEN items
  ELSE SetSolventWeight(items, k, uuid, selectedSolvent,
         NewTotalSolventWeight(s, targetPercent, IF k # 0 THEN items[k].weight ELSE Zero))

\* handleAdjustSolvent; targetPercent is parseFloat(targetConc), uuid the
\* value of crypto.randomUUID()
handleAdjustSolvent(items, uuid, targetPercent, selectedSolvent) ==
  IF \/ IsNaN(targetPercent) \/ targetPercent = Zero
     \/ RLeq(targetPercent, Zero) \/ RGeq(targetPercent, Int2R(100))
  THEN items
  ELSE AdjustWithStats(items, calculateStats(items),
                       FindSolventRowFrom(items, selectedSolvent, 1),
                       uuid, targetPercent, selectedSolvent)

\* Lines of the formulas BatchTools is given.
ToolPool ==
  { Item("bergamot_oil", sBergamot, casMixture, sCitrus, sTop,
         Int2R(100), One, sNone, Int2R(120), Null),
    Item("bergamot_oil", sBergamot, casMixture, sCitrus, sTop,
         Int2R(50), One, sNone, Int2R(120), Null),
    Item("lemon_oil", sLemon, casMixture, sCitrus, sTop,
         Int2R(40), Rat(1, 2), sDPG, Int2R(90), Null),
    Item("ethanol", sEthanol, casEthanol, sSolvent, sSolvent,
         Int2R(800), One, sNone, Int2R(10), Null),
    Item("", sRose, casEmpty, sCustom, sMiddle,
         Zero, One, sNone, Zero, Null) }

\* Formulas whose lines carry the uuids 1..n.
ToolFormulas ==
  UNION { { [i \in 1..n |-> AppItem(i, NoAccord, f[i])] : f \in [1..n -> ToolPool] } :
          n \in 0..MaxItems }

\* What parseFloat gives for the texts of the two number inputs.
ScaleTargets == {NaN, Zero, Int2R(-5), Int2R(1000)}

ConcentrationTargets == {NaN, Zero, Int2R(100), Int2R(15), Int2R(50)}

InitTools ==
  /\ formula \in ToolFormulas
  /\ category = "4"
  /\ totalBatchWeight = Zero
  /\ stats = Null
  /\ report = <<>>
  /\ pc = "start"
  /\ ethanolPct = Zero
  /\ flashPoint = Null
  /\ accordGroups = <<>>
  /\ accordTemplates = <<>>
  /\ snapshots = <<>>
  /\ sessionLog = <<>>
  /\ loggingRef = <<>>
  /\ timers = {}
  /\ checkedItems = {}
  /\ confirmClear = FALSE
  /\ cleanupDue = FALSE
  /\ nextId = Len(formula) + 1
  /\ lastCall = [kind |-> "none"]

\* onClick={handleScale}; onUpdateFormula is setFormula
HandleScale ==
  /\ pc = "start"
  /\ \E target \in ScaleTargets, scaleMode \in {"total", "ingredient"},
        targetIngredientId \in {""} \cup {INGREDIENTS[d].id : d \in 1..Len(INGREDIENTS)} :
       /\ scaleMode = "total" => targetIngredientId = ""
       /\ formula' = handleScale(formula, target, scaleMode, targetIngredientId)
       /\ lastCall' = [kind |-> "handleScale", target |-> target, scaleMode |-> scaleMode,
                       targetIngredientId |-> targetIngredientId, before |-> formula]
  /\ pc' = "done"
  /\ UNCHANGED <<category, totalBatchWeight, stats, report, ethanolPct, flashPoint,
                 accordGroups, accordTemplates, snapshots, sessionLog, loggingRef, timers,
                 checkedItems, confirmClear, cleanupDue, nextId>>

\* onClick={handleAdjustSolvent}
HandleAdjustSolvent ==
  /\ pc = "start"
  /\ \E targetPercent \in ConcentrationTargets, selectedSolvent \in {sEthanol, sDPG} :
       /\ formula' = handleAdjustSolvent(formula, nextId, targetPercent, selectedSolvent)
       /\ lastCall' = [kind |-> "handleAdjustSolvent", targetPercent |-> targetPercent,
                       selectedSolvent |-> selectedSolvent, before |-> formula]
  /\ nextId' = IF Len(formula') > Len(formula) THEN nextId + 1 ELSE nextId
  /\ pc' = "done"
  /\ UNCHANGED <<category, totalBatchWeight, stats, report, ethanolPct, flashPoint,
                 accordGroups, accordTemplates, snapshots, sessionLog, loggingRef, timers,
                 checkedItems, confirmClear, cleanupDue>>

NextTools == HandleScale \/ HandleAdjustSolvent

SpecTools == InitTools /\ [][NextTools]_vars

\* handleAdjustSolvent passed all its tests and called onUpdateFormula.
AdjustSucceeded ==
  /\ lastCall.kind = "handleAdjustSolvent"
  /\ RGt(lastCall.targetPercent, Zero) /\ RLt(lastCall.targetPercent, Int2R(100))
  /\ RGt(calculateStats(lastCall.before).concentrateMass, Zero)
  /\ RGt(NewTotalSolventWeight(
           calculateStats(lastCall.before), lastCall.targetPercent,
           IF FindSolventRowFrom(lastCall.before, lastCall.selectedSolvent, 1) # 0
           THEN lastCall.before[FindSolventRowFrom(lastCall.before,
                                                   lastCall.selectedSolvent, 1)].weight
           ELSE Zero), Zero)

\* C21: after a successful handleAdjustSolvent for the target t the formula
\* is at the target: concentrateMass / totalWeight of calculateStats on the
\* new formula is t / 100, and the same adjustment applied again leaves the
\* formula as it is.
C21_AdjustReachesTarget ==
  AdjustSucceeded =>
    /\ RDiv(calculateStats(formula).concentrateMass, calculateStats(formula).totalWeight)
         = RDiv(lastCall.targetPercent, Int2R(100))
    /\ handleAdjustSolvent(formula, nextId, lastCall.targetPercent, lastCall.selectedSolvent)
         = formula

\* The lines of lastCall.before with the ingredient id the select holds; the
\* select shows the first of them as the selected option.
ReferenceLines ==
  {i \in 1..Len(lastCall.before) :
     lastCall.targetIngredientId # ""
     /\ lastCall.before[i].ingredientId = lastCall.targetIngredientId}

ReferenceLine == CHOOSE k \in ReferenceLines : \A j \in ReferenceLines : k <= j

WeightBefore == Sum([i \in 1..Len(lastCall.before) |-> lastCall.before[i].weight])

ValidScaleTarget == ~IsNaN(lastCall.target) /\ RGt(lastCall.target, Zero)

\* Every line of the formula is the line of lastCall.before with its weight
\* multiplied by ratio.
ScaledBy(ratio) ==
  /\ Len(formula) = Len(lastCall.before)
  /\ \A i \in 1..Len(formula) :
       formula[i] = [lastCall.before[i] EXCEPT !.weight = RMul(lastCall.before[i].weight, ratio)]

DirectSolventWeight ==
  Sum([i \in Items |-> IF IsDirectSolventLine(formula[i]) /\ formula[i].name # sNone
                       THEN formula[i].weight ELSE Zero])

\* C29: active mass and carrier mass account for the batch weight:
\* concentrateMass + totalSolventMass = totalWeight + the weight of the neat
\* lines tagged Solvent and not named 'None'; without direct solvent lines
\* the two masses add up to totalWeight and totalSolventMass is at most
\* totalWeight.
C29_MassBalance ==
  pc # "start" =>
    /\ RAdd(stats[1].concentrateMass, SolventAnalysis.totalSolventMass)
         = RAdd(stats[1].totalWeight, DirectSolventWeight)
    /\ (\A i \in Items : ~IsDirectSolventLine(formula[i])) =>
         /\ RAdd(stats[1].concentrateMass, SolventAnalysis.totalSolventMass)
              = stats[1].totalWeight
         /\ RLeq(SolventAnalysis.totalSolventMass, stats[1].totalWeight)

\* A diluted line beside a direct solvent line named 'None'.
C29_Witness ==
  /\ pc # "start"
  /\ \E i, j \in Items :
       /\ IsDiluted(formula[i]) /\ RGt(formula[i].weight, Zero)
       /\ IsDirectSolventLine(formula[j]) /\ RGt(formula[j].weight, Zero)
       /\ formula[j].name = sNone
  /\ RGt(SolventAnalysis.totalSolventMass, Zero)
  /\ RAdd(stats[1].concentrateMass, SolventAnalysis.totalSolventMass) = stats[1].totalWeight

\* ------------------------------------------------------------------------
\* App: session log and debounced logging
\* ------------------------------------------------------------------------

\* Keep last 100 actions
LogLimit == 100

\* Handles setTimeout can return for the debounce timer.
TimerIds == 1..3

\* The debounce state: the session log, loggingRef.current and the armed
\* debounce timers.
Logging(log, ref, armed) == [sessionLog |-> log, loggingRef |-> ref, timers |-> armed]

LogEntry(action, itemName, field, details) ==
  [action |-> action, itemName |-> itemName, field |-> field, details |-> details]

\* setSessionLog(prev => [entry, ...prev].slice(0, 100))
Prepend(entry, log) ==
  IF Len(log) + 1 > LogLimit THEN <<entry>> \o SubSeq(log, 1, LogLimit - 1)
  ELSE <<entry>> \o log

logAction(L, entry) == [L EXCEPT !.sessionLog = Prepend(entry, @)]

IsNumberField(field) == field \in {"weight", "SG"}

\* null where a number is expected: what JSON makes of a number that is not
\* finite
JsonNull == [null |-> TRUE]

\* The number an arithmetic operator makes of its operand: null counts 0
ToNumber(x) == IF x = JsonNull THEN Zero ELSE x

\* Number.prototype.toFixed(3): the nearest multiple of 1/1000, halves away
\* from zero
ToFixed3(x) ==
  IF ~IsFinite(x) THEN x
  ELSE Rat(Sign(x.num) * ((2000 * Abs(x.num) + x.den) \div (2 * x.den)), 1000)

\* formattedStart / formattedEnd with the tweak for weight; only a value
\* whose typeof is 'number' is given to toFixed
Formatted(field, value) ==
  [text |-> IF IsNumberField(field) /\ value # JsonNull THEN ToFixed3(value) ELSE value,
   unit |-> IF field = "weight" \/ field = "volume" THEN "g" ELSE ""]

\* JSON.stringify writes null for it.
WrittenNull(x) == x = JsonNull \/ ~IsFinite(x)

\* JSON.stringify(startVal) !== JSON.stringify(endVal): every number that is
\* not finite is written null
JsonDiffers(field, startVal, endVal) ==
  IF IsNumberField(field)
  THEN ~(startVal = endVal \/ (WrittenNull(startVal) /\ WrittenNull(endVal)))
  ELSE startVal # endVal

\* setTimeout: a handle that is not armed and is not the one just cleared
NewTimer(armed, cleared) ==
  CHOOSE k \in TimerIds :
    /\ k \notin armed /\ k # cleared
    /\ \A j \in TimerIds : j \notin armed /\ j # cleared => k <= j

\* startValue !== currentValue: NaN differs from itself
StrictlyDiffers(field, startVal, endVal) ==
  startVal # endVal \/ (IsNumberField(field) /\ startVal = NaN)

\* The log entry of a pending edit
UpdatedEntry(ref) ==
  LogEntry("Updated", ref.itemName, ref.field,
           <<Formatted(ref.field, ref.startValue), Formatted(ref.field, ref.currentValue)>>)

\* commitPendingLog that writes the entry without comparing the two values.
commitPendingLogAlways(L) ==
  IF L.loggingRef = Null THEN L
  ELSE Logging(Prepend(UpdatedEntry(L.loggingRef[1]), L.sessionLog),
               Null, L.timers \ {L.loggingRef[1].timer})

commitPendingLog(L) ==
  IF L.loggingRef = Null THEN L
  ELSE Logging(IF StrictlyDiffers(L.loggingRef[1].field, L.loggingRef[1].startValue,
                                  L.loggingRef[1].currentValue)
               THEN Prepend(UpdatedEntry(L.loggingRef[1]), L.sessionLog)
               ELSE L.sessionLog,
               Null, L.timers \ {L.loggingRef[1].timer})

\* A handler without the flush of the pending log.
FlushPendingSkipped(L) == L

\* if (loggingRef.current) commitPendingLog()
FlushPending(L) == IF L.loggingRef # Null THEN commitPendingLog(L) ELSE L

\* 3. Start NEW pending log
StartPending(L, uuid, itemName, field, startVal, endVal) ==
  IF JsonDiffers(field, startVal, endVal)
  THEN Logging(L.sessionLog,
               Some([uuid |-> uuid, field |-> field, itemName |-> itemName,
                     startValue |-> startVal, currentValue |-> endVal,
                     timer |-> NewTimer(L.timers, 0)]),
               L.timers \cup {NewTimer(L.timers, 0)})
  ELSE L

\* UpdatePending that clears the timer and arms none.
UpdatePendingNoTimer(L, endVal) ==
  Logging(L.sessionLog,
          Some([L.loggingRef[1] EXCEPT !.currentValue = endVal]),
          L.timers \ {L.loggingRef[1].timer})

\* UPDATE existing pending log and reset timer (debounce)
UpdatePending(L, endVal) ==
  Logging(L.sessionLog,
          Some([L.loggingRef[1] EXCEPT
                  !.currentValue = endVal,
                  !.timer = NewTimer(L.timers \ {L.loggingRef[1].timer},
                                     L.loggingRef[1].timer)]),
          (L.timers \ {L.loggingRef[1].timer})
            \cup {NewTimer(L.timers \ {L.loggingRef[1].timer}, L.loggingRef[1].timer)})

handleDebouncedLog(L, uuid, itemName, field, startVal, endVal) ==
  IF L.loggingRef # Null /\ L.loggingRef[1].uuid = uuid /\ L.loggingRef[1].field = field
  THEN UpdatePending(L, endVal)
  ELSE StartPending(FlushPending(L), uuid, itemName, field, startVal, endVal)

\* ------------------------------------------------------------------------
\* App: handlers
\* ------------------------------------------------------------------------

\* A bound, not program data: the session log holds at most MaxLog entries,
\* the pending one included; the handlers that write an entry are disabled
\* beyond it.
MaxLog == 2

\* const safeFloat = (val: any) => parseFloat(val) || 0; val is given as
\* what parseFloat returns
safeFloat(val) == IF IsNaN(val) \/ val = Zero THEN Zero ELSE val

RECURSIVE FindUuidFrom(_, _, _)
\* prev.findIndex(i => i.uuid === uuid); 0 stands for -1
FindUuidFrom(f, uuid, i) ==
  IF i > Len(f) THEN 0
  ELSE IF f[i].uuid = uuid THEN i
  ELSE FindUuidFrom(f, uuid, i + 1)

FindUuid(f, uuid) == FindUuidFrom(f, uuid, 1)

\* The field name handleDebouncedLog is given by updateItem.
LoggedField(field) ==
  IF field = "weight" \/ field = "volume" THEN "weight"
  ELSE IF field = "customDensity" THEN "SG"
  ELSE field

\* The start value handleDebouncedLog is given by updateItem.
LoggedStart(item, field) ==
  IF field = "weight" \/ field = "volume" THEN item.weight
  ELSE IF field = "customDensity"
       THEN (IF item.customDensity # Null THEN item.customDensity[1] ELSE One)
  ELSE item.accordId

\* The value updateItem stores and logs.
NewValue(item, field, value) ==
  IF field = "weight" THEN safeFloat(value)
  ELSE IF field = "volume" THEN RMul(safeFloat(value), ItemDensity(item))
  ELSE IF field = "customDensity"
       THEN (IF safeFloat(value) = Zero THEN One ELSE safeFloat(value))
  ELSE value

\* newItem after the assignment of its branch.
WithField(item, field, v) ==
  IF field = "weight" \/ field = "volume" THEN [item EXCEPT !.weight = v]
  ELSE IF field = "customDensity" THEN [item EXCEPT !.customDensity = Some(v)]
  ELSE [item EXCEPT !.accordId = v]

\* The updater updateItem passes to setFormula: the new formula.
updateItem(f, uuid, field, value) ==
  IF FindUuid(f, uuid) = 0 THEN f
  ELSE [f EXCEPT ![FindUuid(f, uuid)] =
          WithField(@, field, NewValue(@, field, value))]

\* The updater updateItem passes to setFormula: its calls of handleDebouncedLog.
updateItemLog(L, f, uuid, field, value) ==
  IF FindUuid(f, uuid) = 0 THEN L
  ELSE handleDebouncedLog(L, uuid, f[FindUuid(f, uuid)].name, LoggedField(field),
                          LoggedStart(f[FindUuid(f, uuid)], field),
                          NewValue(f[FindUuid(f, uuid)], field, value))

\* What addIngredient is given: the id of a database ingredient picked from
\* the list, or (id empty) the text typed for a custom line.
AddInput(id, text) == [id |-> id, text |-> text]

\* newItem of addIngredient
NewIngredientItem(uuid, inputVal) ==
  IF FindById(INGREDIENTS, inputVal.id) # 0
  THEN AppItem(uuid, NoAccord,
         Item(INGREDIENTS[FindById(INGREDIENTS, inputVal.id)].id,
              INGREDIENTS[FindById(INGREDIENTS, inputVal.id)].name,
              INGREDIENTS[FindById(INGREDIENTS, inputVal.id)].cas,
              INGREDIENTS[FindById(INGREDIENTS, inputVal.id)].family,
              INGREDIENTS[FindById(INGREDIENTS, inputVal.id)].note,
              Zero,
              INGREDIENTS[FindById(INGREDIENTS, inputVal.id)].dilution,
              INGREDIENTS[FindById(INGREDIENTS, inputVal.id)].solvent,
              INGREDIENTS[FindById(INGREDIENTS, inputVal.id)].costPerKg,
              Null))
  ELSE AppItem(uuid, NoAccord,
         Item("", inputVal.text, casEmpty, sCustom, sMiddle, Zero, One, sNone, Zero, Null))

\* prev => [...prev, newItem]
addIngredient(f, uuid, inputVal) == Append(f, NewIngredientItem(uuid, inputVal))

\* prev.filter(item => item.uuid !== uuid)
removeIngredient(f, uuid) == SelectSeq(f, LAMBDA item : item.uuid # uuid)

\* formula.filter(i => i.accordId === accordId)
GroupItems(f, accordId) == SelectSeq(f, LAMBDA item : item.accordId = accordId)

RECURSIVE WeightSumTo(_, _)
\* groupItems.reduce((sum, i) => sum + i.weight, 0)
WeightSumTo(items, n) ==
  IF n = 0 THEN Zero ELSE RAdd(WeightSumTo(items, n - 1), ToNumber(items[n].weight))

CurrentWeight(f, accordId) ==
  WeightSumTo(GroupItems(f, accordId), Len(GroupItems(f, accordId)))

\* handleScaleAccord gets as far as setFormula; input is what window.prompt
\* returned: Null for a cancelled or empty prompt, else what parseFloat
\* makes of the text
ScaleAccordRuns(f, accordId, input) ==
  /\ Len(GroupItems(f, accordId)) # 0
  /\ ~RLeq(CurrentWeight(f, accordId), Zero)
  /\ input # Null
  /\ ~(IsNaN(input[1]) \/ RLt(input[1], Zero))

\* newFormula of handleScaleAccord
ScaleAccordItems(f, accordId, ratio) ==
  [i \in 1..Len(f) |->
     IF f[i].accordId = accordId
     THEN [f[i] EXCEPT !.weight = RMul(ToNumber(f[i].weight), ratio)]
     ELSE f[i]]

handleScaleAccord(f, accordId, input) ==
  IF ScaleAccordRuns(f, accordId, input)
  THEN ScaleAccordItems(f, accordId, RDiv(input[1], CurrentWeight(f, accordId)))
  ELSE f

sUndefined == <<"u", "n", "d", "e", "f", "i", "n", "e", "d">>

RECURSIVE FindGroupFrom(_, _, _)
FindGroupFrom(groups, id, i) ==
  IF i > Len(groups) THEN 0
  ELSE IF groups[i].id = id THEN i
  ELSE FindGroupFrom(groups, id, i + 1)

\* accordGroups.find(g => g.id === accordId)?.name
GroupName(groups, id) ==
  IF FindGroupFrom(groups, id, 1) # 0 THEN groups[FindGroupFrom(groups, id, 1)].name
  ELSE sUndefined

AccordGroup(id, name) == [id |-> id, name |-> name, collapsed |-> FALSE]

\* An AccordTemplateItem: the copied fields and the ratio.
TemplateItem(ratio, item) == [ratio |-> ratio, item |-> item]

AccordTemplate(id, name, items) == [id |-> id, name |-> name, items |-> items]

\* accordTemplates.find(t => t.id === templateId); 0 if there is none
RECURSIVE FindTemplateFrom(_, _, _)
FindTemplateFrom(templates, id, i) ==
  IF i > Len(templates) THEN 0
  ELSE IF templates[i].id = id THEN i
  ELSE FindTemplateFrom(templates, id, i + 1)

\* newItems of handleInsertTemplate; the k-th line gets the uuid firstUuid + k - 1
TemplateLines(template, newGroupId, firstUuid, targetWeight) ==
  [k \in 1..Len(template.items) |->
     AppItem(firstUuid + k - 1, newGroupId,
             [template.items[k].item EXCEPT
                !.weight = RMul(template.items[k].ratio, targetWeight)])]

\* JSON.parse(JSON.stringify(x)) of a number: what is not finite comes back null
JsonNumber(x) == IF WrittenNull(x) THEN JsonNull ELSE x

\* JSON.parse(JSON.stringify(formula))
JsonCopy(f) ==
  [i \in 1..Len(f) |->
     [f[i] EXCEPT !.weight = JsonNumber(@), !.dilution = JsonNumber(@),
                  !.costPerKg = JsonNumber(@),
                  !.customDensity = IF @ # Null /\ ~WrittenNull(@[1]) THEN @ ELSE Null]]

Snapshot(id, name, f, note) == [id |-> id, name |-> name, formula |-> f, note |-> note]

\* prev => [newSnap, ...prev]
SaveSnapshot(snaps, id, name, f, note) == <<Snapshot(id, name, JsonCopy(f), note)>> \o snaps

\* The cleanup effect without the deletions.
CleanChecklistKeepAll(checked, f) == checked

\* nextChecked of the cleanup effect
CleanChecklist(checked, f) == {id \in checked : \E i \in 1..Len(f) : f[i].uuid = id}

\* toggleCheck
toggleCheck(checked, uuid) ==
  IF uuid \in checked THEN checked \ {uuid} ELSE checked \cup {uuid}

\* ------------------------------------------------------------------------
\* App: the session
\* ------------------------------------------------------------------------

calcVars == <<category, totalBatchWeight, stats, report, pc, ethanolPct, flashPoint>>

sV0 == <<"v", "0">>
sV1 == <<"v", "1">>
sFileName == <<"f", ".", "j", "s", "o", "n">>

BergamotLine(weight) ==
  Item("bergamot_oil", sBergamot, casMixture, sCitrus, sTop, weight, One, sNone,
       Int2R(120), Null)

LemonLine(weight) ==
  Item("lemon_oil", sLemon, casMixture, sCitrus, sTop, weight, Rat(1, 2), sDPG,
       Int2R(90), Null)

RoseLine(weight) ==
  Item("", sRose, casEmpty, sCustom, sMiddle, weight, One, sNone, Zero, Null)

\* The session the app starts from: two lines, both in the accord 3, one
\* stored template and one snapshot of an earlier formula.
SessionStart ==
  /\ formula = <<AppItem(1, 3, BergamotLine(Int2R(10))), AppItem(2, 3, LemonLine(Int2R(5)))>>
  /\ category = "4"
  /\ totalBatchWeight = Zero
  /\ stats = Null
  /\ report = <<>>
  /\ pc = "app"
  /\ ethanolPct = Zero
  /\ flashPoint = Null
  /\ accordGroups = <<AccordGroup(3, sCitrus)>>
  /\ accordTemplates =
       <<AccordTemplate(4, sFloral, <<TemplateItem(Rat(2, 3), BergamotLine(Zero)),
                                      TemplateItem(Rat(1, 3), RoseLine(Zero))>>)>>
  /\ snapshots = <<Snapshot(5, sV0, <<AppItem(1, 3, BergamotLine(Int2R(8)))>>, sEmpty)>>
  /\ sessionLog = <<>>
  /\ loggingRef = Null
  /\ timers = {}
  /\ confirmClear = FALSE
  /\ cleanupDue = FALSE
  /\ nextId = 6
  /\ lastCall = [kind |-> "none"]

\* Nothing is ticked on the checklist.
InitApp == SessionStart /\ checkedItems = {}

\* Any of the lines may be ticked on the checklist.
InitChecklist == SessionStart /\ checkedItems \in SUBSET {1, 2}

\* The debounce state of the current state.
Now == Logging(sessionLog, loggingRef, timers)

SetLogging(L) ==
  /\ sessionLog' = L.sessionLog
  /\ loggingRef' = L.loggingRef
  /\ timers' = L.timers

\* The log, with the entry a pending edit may still add, stays within MaxLog.
Fits(L) == Len(L.sessionLog) + (IF L.loggingRef # Null THEN 1 ELSE 0) <= MaxLog

\* The record of the handler that ran last: what it was given and whether it
\* got as far as its state updates.
Call(kind, args, effect) == [kind |-> kind, args |-> args, effect |-> effect]

Uuids(f) == {f[i].uuid : i \in 1..Len(f)}

\* What parseFloat makes of the texts typed into a line's weight and volume
\* inputs, and the accords the accord select offers.
EditValues(field) ==
  IF field = "weight" THEN {NaN, Int2R(5)}
  ELSE IF field = "volume" THEN {Int2R(10)}
  ELSE {NoAccord} \cup {accordGroups[i].id : i \in 1..Len(accordGroups)}

EditFields == {"weight", "volume", "accordId"}

\* onChange of a line's input: updateItem, handleSetAccord
UpdateItem ==
  /\ ~cleanupDue
  /\ \E uuid \in Uuids(formula), field \in EditFields :
       \E value \in EditValues(field) :
         /\ Fits(updateItemLog(Now, formula, uuid, field, value))
         /\ SetLogging(updateItemLog(Now, formula, uuid, field, value))
         /\ formula' = updateItem(formula, uuid, field, value)
         /\ lastCall' = Call("updateItem",
                             [uuid |-> uuid, field |-> LoggedField(field),
                              value |-> NewValue(formula[FindUuid(formula, uuid)], field, value)],
                             TRUE)
  /\ cleanupDue' = TRUE
  /\ UNCHANGED <<calcVars, accordGroups, accordTemplates, snapshots, checkedItems,
                 confirmClear, nextId>>

\* The callback of the debounce timer k: commitPendingLog
TimerFires(k) ==
  /\ ~cleanupDue
  /\ k \in timers
  /\ SetLogging([commitPendingLog(Now) EXCEPT !.timers = @ \ {k}])
  /\ lastCall' = Call("timer", [timer |-> k], TRUE)
  /\ UNCHANGED <<calcVars, formula, accordGroups, accordTemplates, snapshots,
                 checkedItems, confirmClear, cleanupDue, nextId>>

LogTimerFires == \E k \in TimerIds : TimerFires(k)

AddInputs == {AddInput("bergamot_oil", sEmpty), AddInput("", sRose)}

AddIngredient ==
  /\ ~cleanupDue
  /\ \E inputVal \in AddInputs :
       /\ Fits(logAction(FlushPending(Now),
                  LogEntry("Added Ingredient", NewIngredientItem(nextId, inputVal).name, "", <<>>)))
       /\ SetLogging(logAction(FlushPending(Now),
                  LogEntry("Added Ingredient", NewIngredientItem(nextId, inputVal).name, "", <<>>)))
       /\ formula' = addIngredient(formula, nextId, inputVal)
       /\ lastCall' = Call("addIngredient", [inputVal |-> inputVal], TRUE)
  /\ nextId' = nextId + 1
  /\ cleanupDue' = TRUE
  /\ UNCHANGED <<calcVars, accordGroups, accordTemplates, snapshots, checkedItems, confirmClear>>

\* onRemove(item.uuid)
RemoveIngredient ==
  /\ ~cleanupDue
  /\ \E uuid \in Uuids(formula) :
       /\ Fits(logAction(FlushPending(Now),
                  LogEntry("Removed Ingredient", formula[FindUuid(formula, uuid)].name, "", <<>>)))
       /\ SetLogging(logAction(FlushPending(Now),
                  LogEntry("Removed Ingredient", formula[FindUuid(formula, uuid)].name, "", <<>>)))
       /\ formula' = removeIngredient(formula, uuid)
       /\ lastCall' = Call("removeIngredient",
                           [uuid |-> uuid, ticked |-> uuid \in checkedItems], TRUE)
  /\ cleanupDue' = TRUE
  /\ UNCHANGED <<calcVars, accordGroups, accordTemplates, snapshots, checkedItems,
                 confirmClear, nextId>>

\* What window.prompt returns to handleScaleAccord, parsed.
PromptInputs ==
  {Null, Some(NaN), Some(Int2R(-1)), Some(Zero), Some(Int2R(30)), Some(Infinity)}

ScaledAccordEntry(f, accordId, input) ==
  LogEntry("Scaled Accord", GroupName(accordGroups, accordId), "",
           <<Formatted("weight", CurrentWeight(f, accordId)), Formatted("weight", input[1])>>)

HandleScaleAccord ==
  /\ ~cleanupDue
  /\ \E g \in 1..Len(accordGroups), input \in PromptInputs :
       /\ formula' = handleScaleAccord(formula, accordGroups[g].id, input)
       /\ IF ScaleAccordRuns(formula, accordGroups[g].id, input)
          THEN /\ Fits(logAction(FlushPending(Now),
                         ScaledAccordEntry(formula, accordGroups[g].id, input)))
               /\ SetLogging(logAction(FlushPending(Now),
                         ScaledAccordEntry(formula, accordGroups[g].id, input)))
               /\ cleanupDue' = TRUE
          ELSE UNCHANGED <<sessionLog, loggingRef, timers, cleanupDue>>
       /\ lastCall' = Call("handleScaleAccord",
                           [accordId |-> accordGroups[g].id, input |-> input],
                           ScaleAccordRuns(formula, accordGroups[g].id, input))
  /\ UNCHANGED <<calcVars, accordGroups, accordTemplates, snapshots, checkedItems,
                 confirmClear, nextId>>

\* What confirmInsert passes on: a number above 0.
InsertWeights == {Int2R(30)}

\* onInsert(insertId, w)
HandleInsertTemplate ==
  /\ ~cleanupDue
  /\ \E t \in 1..Len(accordTemplates), targetWeight \in InsertWeights :
       /\ Fits(logAction(FlushPending(Now),
                  LogEntry("Inserted Template", accordTemplates[t].name, "",
                           <<[text |-> targetWeight, unit |-> "g"]>>)))
       /\ SetLogging(logAction(FlushPending(Now),
                  LogEntry("Inserted Template", accordTemplates[t].name, "",
                           <<[text |-> targetWeight, unit |-> "g"]>>)))
       /\ accordGroups' = Append(accordGroups, AccordGroup(nextId, accordTemplates[t].name))
       /\ formula' = formula \o TemplateLines(accordTemplates[t], nextId, nextId + 1, targetWeight)
       /\ nextId' = nextId + 1 + Len(accordTemplates[t].items)
       /\ lastCall' = Call("handleInsertTemplate",
                           [templateId |-> accordTemplates[t].id, targetWeight |-> targetWeight],
                           TRUE)
  /\ cleanupDue' = TRUE
  /\ UNCHANGED <<calcVars, accordTemplates, snapshots, checkedItems, confirmClear>>

\* onSaveSnapshot(name, note)
HandleSaveSnapshot ==
  /\ ~cleanupDue
  /\ Fits(logAction(FlushPending(Now), LogEntry("Created Snapshot", sV1, "", <<>>)))
  /\ SetLogging(logAction(FlushPending(Now), LogEntry("Created Snapshot", sV1, "", <<>>)))
  /\ snapshots' = SaveSnapshot(snapshots, nextId, sV1, formula, sEmpty)
  /\ nextId' = nextId + 1
  /\ lastCall' = Call("handleSaveSnapshot", [name |-> sV1], TRUE)
  /\ UNCHANGED <<calcVars, formula, accordGroups, accordTemplates, checkedItems,
                 confirmClear, cleanupDue>>

\* onRestoreSnapshot(snap)
HandleRestoreSnapshot ==
  /\ ~cleanupDue
  /\ \E s \in 1..Len(snapshots) :
       /\ Fits(logAction(FlushPending(Now),
                  LogEntry("Restored Snapshot", snapshots[s].name, "", <<>>)))
       /\ SetLogging(logAction(FlushPending(Now),
                  LogEntry("Restored Snapshot", snapshots[s].name, "", <<>>)))
       /\ formula' = JsonCopy(snapshots[s].formula)
       /\ lastCall' = Call("handleRestoreSnapshot", [id |-> snapshots[s].id], TRUE)
  /\ cleanupDue' = TRUE
  /\ UNCHANGED <<calcVars, accordGroups, accordTemplates, snapshots, checkedItems,
                 confirmClear, nextId>>

\* onDeleteSnapshot(snap.id)
HandleDeleteSnapshot ==
  /\ ~cleanupDue
  /\ \E s \in 1..Len(snapshots) :
       /\ snapshots' = SelectSeq(snapshots, LAMBDA x : x.id # snapshots[s].id)
       /\ lastCall' = Call("handleDeleteSnapshot", [id |-> snapshots[s].id], TRUE)
  /\ UNCHANGED <<calcVars, formula, accordGroups, accordTemplates, sessionLog, loggingRef,
                 timers, checkedItems, confirmClear, cleanupDue, nextId>>

HandleClear ==
  /\ ~cleanupDue
  /\ IF confirmClear
     THEN /\ Fits(logAction(FlushPending(Now), LogEntry("Cleared Formula", sEmpty, "", <<>>)))
          /\ SetLogging(logAction(FlushPending(Now),
                                  LogEntry("Cleared Formula", sEmpty, "", <<>>)))
          /\ formula' = <<>>
          /\ confirmClear' = FALSE
          /\ checkedItems' = {}
          /\ cleanupDue' = TRUE
     ELSE /\ confirmClear' = TRUE
          /\ UNCHANGED <<formula, sessionLog, loggingRef, timers, checkedItems, cleanupDue>>
  /\ lastCall' = Call("handleClear", [confirmed |-> confirmClear], confirmClear)
  /\ UNCHANGED <<calcVars, accordGroups, accordTemplates, snapshots, nextId>>

\* setTimeout(() => setConfirmClear(false), 3000)
ConfirmClearExpires ==
  /\ ~cleanupDue
  /\ confirmClear
  /\ confirmClear' = FALSE
  /\ lastCall' = Call("confirmClearTimer", [timer |-> 0], TRUE)
  /\ UNCHANGED <<calcVars, formula, accordGroups, accordTemplates, snapshots, sessionLog,
                 loggingRef, timers, checkedItems, cleanupDue, nextId>>

\* The files given to handleLoadJSON: a V1 array, a V2 object with accord
\* groups, an object without a formula, and text that is not JSON.
\* Their lines were saved by this app, one with the uuid of a current line.
LoadFiles ==
  { [kind |-> "v1", formula |-> <<AppItem(2, NoAccord, LemonLine(Int2R(7)))>>,
     accordGroups |-> Null],
    [kind |-> "v2", formula |-> <<AppItem(9, 8, RoseLine(Int2R(2)))>>,
     accordGroups |-> Some(<<AccordGroup(8, sFloral)>>)],
    [kind |-> "object", formula |-> <<>>, accordGroups |-> Null],
    [kind |-> "invalid", formula |-> <<>>, accordGroups |-> Null] }

LoadedEntry(file) ==
  LogEntry(IF file.kind = "v1" THEN "Loaded JSON (V1)" ELSE "Loaded JSON (V2)",
           sFileName, "", <<>>)

\* reader.onload of handleLoadJSON
HandleLoadJSON ==
  /\ ~cleanupDue
  /\ \E file \in LoadFiles :
       /\ IF file.kind \in {"v1", "v2"}
          THEN /\ Fits(logAction(FlushPending(Now), LoadedEntry(file)))
               /\ SetLogging(logAction(FlushPending(Now), LoadedEntry(file)))
               /\ formula' = file.formula
               /\ accordGroups' = IF file.kind = "v2" /\ file.accordGroups # Null
                                  THEN file.accordGroups[1] ELSE <<>>
               /\ cleanupDue' = TRUE
          ELSE IF file.kind = "object"
          THEN /\ SetLogging(FlushPending(Now))
               /\ UNCHANGED <<formula, accordGroups, cleanupDue>>
          ELSE UNCHANGED <<formula, accordGroups, sessionLog, loggingRef, timers, cleanupDue>>
       /\ lastCall' = Call("handleLoadJSON", [kind |-> file.kind], file.kind # "invalid")
  /\ UNCHANGED <<calcVars, accordTemplates, snapshots, checkedItems, confirmClear, nextId>>

\* onToggleCheck={() => toggleCheck(item.uuid)} of a displayed line
ToggleCheck ==
  /\ ~cleanupDue
  /\ \E uuid \in Uuids(formula) :
       /\ checkedItems' = toggleCheck(checkedItems, uuid)
       /\ lastCall' = Call("toggleCheck", [uuid |-> uuid], TRUE)
  /\ UNCHANGED <<calcVars, formula, accordGroups, accordTemplates, snapshots, sessionLog,
                 loggingRef, timers, confirmClear, cleanupDue, nextId>>

ResetChecklist ==
  /\ ~cleanupDue
  /\ checkedItems # {}
  /\ checkedItems' = {}
  /\ lastCall' = Call("resetChecklist", [uuid |-> 0], TRUE)
  /\ UNCHANGED <<calcVars, formula, accordGroups, accordTemplates, snapshots, sessionLog,
                 loggingRef, timers, confirmClear, cleanupDue, nextId>>

\* The effect that runs after a render with a new formula.
ChecklistCleanup ==
  /\ cleanupDue
  /\ checkedItems' = CleanChecklist(checkedItems, formula)
  /\ cleanupDue' = FALSE
  /\ UNCHANGED <<calcVars, formula, accordGroups, accordTemplates, snapshots, sessionLog,
                 loggingRef, timers, confirmClear, nextId, lastCall>>

NextApp ==
  \/ UpdateItem \/ LogTimerFires \/ AddIngredient \/ RemoveIngredient
  \/ HandleScaleAccord \/ HandleInsertTemplate
  \/ HandleSaveSnapshot \/ HandleRestoreSnapshot \/ HandleDeleteSnapshot
  \/ HandleClear \/ ConfirmClearExpires \/ HandleLoadJSON
  \/ ChecklistCleanup

SpecApp == InitApp /\ [][NextApp]_vars

\* The handlers that change the checklist or take lines out of the formula.
NextChecklist ==
  \/ ToggleCheck \/ ResetChecklist \/ RemoveIngredient
  \/ HandleClear \/ ConfirmClearExpires \/ HandleRestoreSnapshot \/ HandleLoadJSON
  \/ ChecklistCleanup

SpecChecklist == InitChecklist /\ [][NextChecklist]_vars

\* The browser runs the callback of an armed timer that is not cleared, and
\* React runs the effect of a render.
SpecAppFair ==
  /\ SpecApp
  /\ WF_vars(ChecklistCleanup)
  /\ \A k \in TimerIds : WF_vars(TimerFires(k))

\* ------------------------------------------------------------------------
\* Properties of the session
\* ------------------------------------------------------------------------

\* The step is a run of the handler of that kind.
Ran(kind) == ~cleanupDue /\ lastCall'.kind = kind

\* The snapshots of before the step are all still there, unchanged, at the
\* end of the list.
SnapshotsKept ==
  /\ Len(snapshots') >= Len(snapshots)
  /\ \A i \in 1..Len(snapshots) :
       snapshots'[Len(snapshots') - Len(snapshots) + i] = snapshots[i]

\* C22: no step other than the deletion of a snapshot changes a stored
\* snapshot; handleSaveSnapshot stores the live formula as it is at that
\* moment in a new snapshot at the head of the list; handleRestoreSnapshot
\* makes the live formula equal to the stored formula of the snapshot it is
\* given, and leaves that snapshot as it was.
C22_SnapshotsIsolated ==
  [][ /\ (~Ran("handleDeleteSnapshot") => SnapshotsKept)
      /\ (Ran("handleSaveSnapshot") =>
            /\ Len(snapshots') = Len(snapshots) + 1
            /\ snapshots'[1].formula = formula
            /\ formula' = formula)
      /\ (Ran("handleRestoreSnapshot") =>
            \E s \in 1..Len(snapshots) :
              /\ snapshots[s].id = lastCall'.args.id
              /\ formula' = snapshots[s].formula
              /\ snapshots' = snapshots) ]_vars

\* The lines of the accord in the formula before the step.
InAccord(accordId) == {i \in 1..Len(formula) : formula[i].accordId = accordId}

\* The step kept every line and every field but the weights of the accord,
\* which it multiplied by ratio.
AccordScaledBy(accordId, ratio) ==
  /\ Len(formula') = Len(formula)
  /\ \A i \in 1..Len(formula) :
       formula'[i] = IF i \in InAccord(accordId)
                     THEN [formula[i] EXCEPT !.weight = RMul(ToNumber(@), ratio)]
                     ELSE formula[i]

\* C27: a run of handleScaleAccord on an accord that has lines, of total
\* weight W > 0, with an input that parses to a number T >= 0, multiplies the
\* weight of each line of the accord by T / W and changes nothing else, and
\* the weights of the accord then sum to T; every other run leaves the formula
\* as it was.
C27_ScaleAccord ==
  [][ Ran("handleScaleAccord") =>
        IF /\ InAccord(lastCall'.args.accordId) # {}
           /\ RGt(CurrentWeight(formula, lastCall'.args.accordId), Zero)
           /\ lastCall'.args.input # Null
           /\ RGeq(lastCall'.args.input[1], Zero)
        THEN /\ AccordScaledBy(lastCall'.args.accordId,
                               RDiv(lastCall'.args.input[1],
                                    CurrentWeight(formula, lastCall'.args.accordId)))
             /\ CurrentWeight(formula', lastCall'.args.accordId) = lastCall'.args.input[1]
        ELSE formula' = formula ]_vars

\* The pending edit log of before the step is still pending after it.
StillPending ==
  /\ loggingRef # Null /\ loggingRef' # Null
  /\ loggingRef'[1].uuid = loggingRef[1].uuid
  /\ loggingRef'[1].field = loggingRef[1].field

\* The step is an edit of the line and field of the pending edit log.
EditOfPending ==
  /\ Ran("updateItem") /\ loggingRef # Null
  /\ lastCall'.args.uuid = loggingRef[1].uuid
  /\ lastCall'.args.field = loggingRef[1].field

\* The entries the step put at the head of the session log.
NewEntries == SubSeq(sessionLog', 1, Len(sessionLog') - Len(sessionLog))

\* The step kept the session log and put its new entries at its head.
LogExtended ==
  /\ Len(sessionLog') >= Len(sessionLog)
  /\ SubSeq(sessionLog', Len(sessionLog') - Len(sessionLog) + 1, Len(sessionLog')) = sessionLog

\* The 'Updated' entries among the new ones.
NewUpdates == SelectSeq(NewEntries, LAMBDA e : e.action = "Updated")

\* C23: loggingRef holds the one pending edit log.  An edit of the line and
\* field of the pending log leaves it pending, with the start value it had
\* and the value of this edit, and writes nothing to the session log.  A step
\* that ends the pending log writes exactly one entry for it, from its start
\* value to its latest value, or none if the two are equal; a step that
\* leaves it pending writes no entry for it.
C23_EditsCoalesce ==
  [][ /\ LogExtended
      /\ (EditOfPending =>
            /\ StillPending
            /\ loggingRef'[1].startValue = loggingRef[1].startValue
            /\ loggingRef'[1].currentValue = lastCall'.args.value
            /\ sessionLog' = sessionLog)
      /\ (loggingRef # Null /\ ~StillPending =>
            NewUpdates = IF loggingRef[1].startValue # loggingRef[1].currentValue
                         THEN <<UpdatedEntry(loggingRef[1])>>
                         ELSE <<>>)
      /\ (loggingRef = Null \/ StillPending => NewUpdates = <<>>) ]_vars

\* A second edit of the same line and field brought the pending value back to
\* the start value of the first.
C23_Witness ==
  /\ lastCall.kind = "updateItem"
  /\ loggingRef # Null
  /\ loggingRef[1].uuid = lastCall.args.uuid /\ loggingRef[1].field = lastCall.args.field
  /\ loggingRef[1].startValue = loggingRef[1].currentValue

\* The handlers that flush the pending edit log before they act.
FlushingHandlers ==
  {"addIngredient", "removeIngredient", "handleScaleAccord", "handleInsertTemplate",
   "handleSaveSnapshot", "handleRestoreSnapshot", "handleClear", "handleLoadJSON"}

\* The step is an edit of another line or field than that of the pending log.
EditOfOther == Ran("updateItem") /\ loggingRef # Null /\ ~EditOfPending

\* The pending log of before the step was committed before the step wrote
\* its own entry: among the new entries its entry, if its two values differ,
\* is the oldest, and what is pending afterwards is the edit of this step.
CommittedFirst ==
  /\ LogExtended
  /\ NewUpdates = IF loggingRef[1].startValue # loggingRef[1].currentValue
                  THEN <<UpdatedEntry(loggingRef[1])>>
                  ELSE <<>>
  /\ NewUpdates # <<>> => NewEntries[Len(NewEntries)] = UpdatedEntry(loggingRef[1])
  /\ \/ loggingRef' = Null
     \/ /\ Ran("updateItem")
        /\ loggingRef'[1].uuid = lastCall'.args.uuid
        /\ loggingRef'[1].field = lastCall'.args.field
        /\ loggingRef'[1].currentValue = lastCall'.args.value

\* Every run of one of the flushing handlers, but handleClear before its
\* confirmation, and every edit of another line or field commits the pending
\* log first.
C24_EveryRunCommitsFirst ==
  [][ /\ loggingRef # Null
      /\ \/ EditOfOther
         \/ /\ ~cleanupDue /\ lastCall'.kind \in FlushingHandlers
            /\ lastCall'.kind = "handleClear" => lastCall'.args.confirmed
      => CommittedFirst ]_vars

\* C24: a run of one of the flushing handlers that gets past its checks
\* (handleScaleAccord: an accord with lines, of positive weight, and a prompt
\* answered with a number >= 0; handleClear: confirmed; JSON load: text that
\* parses), and every edit of another line or field, commits the pending log
\* first; a run that does not get past its checks leaves the pending log and
\* the session log as they were.
C24_EffectiveRunCommitsFirst ==
  [][ /\ (/\ loggingRef # Null
          /\ \/ EditOfOther
             \/ ~cleanupDue /\ lastCall'.kind \in FlushingHandlers /\ lastCall'.effect
          => CommittedFirst)
      /\ (~cleanupDue /\ lastCall'.kind \in FlushingHandlers /\ ~lastCall'.effect
          => loggingRef' = loggingRef /\ sessionLog' = sessionLog /\ timers' = timers) ]_vars

\* A flushing handler ran while an edit was pending: the entry of the edit
\* lies under the entry of the handler.
C24_Witness ==
  /\ lastCall.kind \in FlushingHandlers /\ lastCall.effect
  /\ loggingRef = Null
  /\ Len(sessionLog) = 2
  /\ sessionLog[2].action = "Updated" /\ sessionLog[1].action # "Updated"

\* A log is pending whose debounce timer is k.
PendingOn(k) == loggingRef # Null /\ loggingRef[1].timer = k

\* C25: while a log is pending exactly one debounce timer is armed, its own,
\* and none is armed otherwise; a pending log with its timer armed does not
\* stay so forever: either a further edit re-arms it with a new timer or it is
\* resolved; and the callback of the timer clears the pending log and writes
\* its entry exactly once if its two values differ.
C25_PendingResolved ==
  /\ [](timers = IF loggingRef # Null THEN {loggingRef[1].timer} ELSE {})
  /\ \A k \in TimerIds : PendingOn(k) ~> ~PendingOn(k)
  /\ [][ Ran("timer") /\ loggingRef # Null =>
            /\ loggingRef' = Null
            /\ timers' = {}
            /\ sessionLog' = IF loggingRef[1].startValue # loggingRef[1].currentValue
                              THEN <<UpdatedEntry(loggingRef[1])>> \o sessionLog
                              ELSE sessionLog ]_vars

\* The timer of a pending log fired and its entry heads the session log.
C25_Witness ==
  /\ lastCall.kind = "timer"
  /\ loggingRef = Null /\ timers = {}
  /\ sessionLog # <<>> /\ sessionLog[1].action = "Updated"

\* C30: once the cleanup effect that follows a change of the formula has run,
\* every id on the checklist is the uuid of a line of the formula.
C30_NoGhosts == ~cleanupDue => checkedItems \subseteq Uuids(formula)

\* A ticked line was removed, the effect has run, and another line is still ticked.
C30_Witness ==
  /\ lastCall.kind = "removeIngredient" /\ lastCall.args.ticked
  /\ ~cleanupDue
  /\ checkedItems # {}
  /\ lastCall.args.uuid \notin checkedItems

\* ------------------------------------------------------------------------
\* App: import of accord templates
\* ------------------------------------------------------------------------

\* Bounds, not program data: the ids crypto.randomUUID can return, and the
\* number of templates of an imported batch.
MaxUuid == 5
MaxBatch == 2

\* !newId || typeof newId !== 'string' || usedIds.has(newId); the id 0 stands
\* for a missing id
NeedsNewId(id, usedIds) == id = 0 \/ id \in usedIds

\* newId of one round of the loop; fresh is the value of crypto.randomUUID()
\* the while loop ends with
NewIdOf(t, usedIds, fresh) == IF NeedsNewId(t.id, usedIds) THEN fresh ELSE t.id

RECURSIVE FreshOkFrom(_, _, _, _)
\* while (usedIds.has(newId)) newId = crypto.randomUUID(): the value the
\* loop ends with is not in usedIds
FreshOkFrom(usedIds, incoming, fresh, i) ==
  IF i > Len(incoming) THEN TRUE
  ELSE /\ NeedsNewId(incoming[i].id, usedIds) => fresh[i] \notin usedIds
       /\ FreshOkFrom(usedIds \cup {NewIdOf(incoming[i], usedIds, fresh[i])},
                      incoming, fresh, i + 1)

RECURSIVE ImportedNoAddFrom(_, _, _, _)
\* The loop without usedIds.add(newId).
ImportedNoAddFrom(usedIds, incoming, fresh, i) ==
  IF i > Len(incoming) THEN <<>>
  ELSE <<[incoming[i] EXCEPT !.id = NewIdOf(incoming[i], usedIds, fresh[i])]>>
       \o ImportedNoAddFrom(usedIds, incoming, fresh, i + 1)

RECURSIVE ImportedFrom(_, _, _, _)
\* finalImported, from the i-th incoming template on
ImportedFrom(usedIds, incoming, fresh, i) ==
  IF i > Len(incoming) THEN <<>>
  ELSE <<[incoming[i] EXCEPT !.id = NewIdOf(incoming[i], usedIds, fresh[i])]>>
       \o ImportedFrom(usedIds \cup {NewIdOf(incoming[i], usedIds, fresh[i])},
                       incoming, fresh, i + 1)

TemplateIdsOf(templates) == {templates[i].id : i \in 1..Len(templates)}

\* The updater handleImportAccordTemplates passes to setAccordTemplates
handleImportAccordTemplates(prev, incoming, fresh) ==
  prev \o ImportedFrom(TemplateIdsOf(prev), incoming, fresh, 1)

sA == <<"A">>
sB == <<"B">>

\* The stored templates the import starts from: their ids are distinct.
StoredTemplates ==
  { <<>>,
    <<AccordTemplate(1, sFloral, <<TemplateItem(One, RoseLine(Zero))>>)>>,
    <<AccordTemplate(1, sFloral, <<TemplateItem(One, RoseLine(Zero))>>),
      AccordTemplate(2, sCitrus, <<TemplateItem(One, BergamotLine(Zero))>>)>> }

\* The batches processImport hands over: one to MaxBatch templates whose ids
\* are any ids, equal ones and missing ones included.
Batches ==
  UNION { [1..n -> { AccordTemplate(id, name, <<TemplateItem(One, LemonLine(Zero))>>) :
                       id \in 0..3, name \in {sA, sB} }] : n \in 1..MaxBatch }

InitTemplates ==
  /\ formula = <<>>
  /\ category = "4"
  /\ totalBatchWeight = Zero
  /\ stats = Null
  /\ report = <<>>
  /\ pc = "start"
  /\ ethanolPct = Zero
  /\ flashPoint = Null
  /\ accordGroups = <<>>
  /\ accordTemplates \in StoredTemplates
  /\ snapshots = <<>>
  /\ sessionLog = <<>>
  /\ loggingRef = Null
  /\ timers = {}
  /\ checkedItems = {}
  /\ confirmClear = FALSE
  /\ cleanupDue = FALSE
  /\ nextId = 1
  /\ lastCall = [kind |-> "none"]

\* onImportTemplates(validTemplates)
HandleImportAccordTemplates ==
  /\ pc = "start"
  /\ \E incoming \in Batches :
       \E fresh \in [1..Len(incoming) -> 1..MaxUuid] :
         /\ FreshOkFrom(TemplateIdsOf(accordTemplates), incoming, fresh, 1)
         /\ accordTemplates' = handleImportAccordTemplates(accordTemplates, incoming, fresh)
         /\ SetLogging(logAction(Now,
               LogEntry("Imported Templates", sEmpty, "",
                        <<[text |-> Len(incoming), unit |-> "templates added"]>>)))
         /\ lastCall' = Call("handleImportAccordTemplates",
                             [before |-> accordTemplates, incoming |-> incoming], TRUE)
  /\ pc' = "done"
  /\ UNCHANGED <<category, totalBatchWeight, stats, report, ethanolPct, flashPoint,
                 formula, accordGroups, snapshots, checkedItems, confirmClear,
                 cleanupDue, nextId>>

NextTemplates == HandleImportAccordTemplates

SpecTemplates == InitTemplates /\ [][NextTemplates]_vars

\* The ids of the templates are pairwise distinct.
DistinctIds(templates) ==
  \A i, j \in 1..Len(templates) : templates[i].id = templates[j].id => i = j

\* C26: after handleImportAccordTemplates on stored templates with distinct
\* ids the ids of all templates are distinct and none is missing, the stored
\* templates come first and unchanged, and every imported template follows
\* in the order of the batch, unchanged but for its id.
C26_TemplateIdsUnique ==
  lastCall.kind = "handleImportAccordTemplates" =>
    /\ DistinctIds(accordTemplates)
    /\ \A i \in 1..Len(accordTemplates) : accordTemplates[i].id # 0
    /\ Len(accordTemplates) = Len(lastCall.args.before) + Len(lastCall.args.incoming)
    /\ SubSeq(accordTemplates, 1, Len(lastCall.args.before)) = lastCall.args.before
    /\ \A i \in 1..Len(lastCall.args.incoming) :
         [accordTemplates[Len(lastCall.args.before) + i] EXCEPT !.id = 0]
           = [lastCall.args.incoming[i] EXCEPT !.id = 0]

\* A batch of two templates with the same id, that of a stored template, was
\* imported.
C26_Witness ==
  /\ lastCall.kind = "handleImportAccordTemplates"
  /\ Len(lastCall.args.incoming) = 2
  /\ lastCall.args.incoming[1].id = lastCall.args.incoming[2].id
  /\ lastCall.args.incoming[1].id \in TemplateIdsOf(lastCall.args.before)

====
